---- MODULE Spec2Model ----
(***************************************************************************)
(* Covering engine of poly-cover (src/js/covering.ts, src/js/drawing.ts). *)
(*                                                                         *)
(* One run of the generator runCovering is modelled as a state machine:    *)
(* every action is one resumption of the generator (one next() call of    *)
(* the consumer), from the suspension point it was left at to the next     *)
(* yield or to its return.                                                 *)
(*                                                                         *)
(* Numbers.  All inputs are integers.  The only division of the geometry   *)
(* code, in pointInPolygon, is compared against an integer and is modelled *)
(* by the equivalent cross-multiplied comparison.  Areas are kept doubled  *)
(* (signedArea returns a/2) and circle coordinates are kept in half units  *)
(* (r = diameter/2), so every value of the model is an integer.            *)
(***************************************************************************)
EXTENDS Integers, Sequences, FiniteSets, TLC

(***************************************************************************)
(* Bounds of the model                                                     *)
(***************************************************************************)
\* minSize ranges over grain * (1..MaxMinSize), grain being the input's unit
MaxMinSize == 2
\* options.maxK ranges over 1..MaxMaxK
MaxMaxK == 4
\* options.minK ranges over 1..MaxMinK
MaxMinK == 3

(***************************************************************************)
(* Small helpers                                                           *)
(***************************************************************************)
Min2(a, b) == IF a <= b THEN a ELSE b

Max2(a, b) == IF a >= b THEN a ELSE b

Abs(a) == IF a < 0 THEN -a ELSE a

RECURSIVE SumSeq(_)
SumSeq(s) == IF Len(s) = 0 THEN 0 ELSE Head(s) + SumSeq(Tail(s))

RECURSIVE Flatten(_)
Flatten(ss) == IF Len(ss) = 0 THEN <<>> ELSE Head(ss) \o Flatten(Tail(ss))

Range(s) == {s[i] : i \in 1..Len(s)}

Pt(px, py) == [x |-> px, y |-> py]

\* F applied to the value of v, which is evaluated once:  LET x == v IN F(x).
Let(v, F(_)) == CHOOSE r \in {F(x) : x \in {v}} : TRUE

\* The least element of a non-empty set of integers.
Least(S) == Let(S, LAMBDA T : CHOOSE m \in T : \A o \in T : m <= o)

(***************************************************************************)
(* drawing.ts: geometry primitives                                         *)
(***************************************************************************)
\* One edge (points[i], points[j]) of the ray cast: the condition of the if.
\* px < (xj - xi) * (py - yi) / (yj - yi) + xi, with yj # yi by the first
\* conjunct, is (px - xi) * (yj - yi) < (xj - xi) * (py - yi) when yj > yi
\* and the reverse comparison when yj < yi.
RayCrosses(px, py, pi, pj) ==
    /\ (pi.y > py) # (pj.y > py)
    /\ LET dy  == pj.y - pi.y
           num == (pj.x - pi.x) * (py - pi.y)
           lhs == (px - pi.x) * dy
       IN  IF dy > 0 THEN lhs < num ELSE lhs > num

pointInPolygon(px, py, points) ==
    IF Len(points) < 3 THEN FALSE
    ELSE LET n == Len(points)
             crossings == {i \in 1..n :
                 RayCrosses(px, py, points[i], points[IF i = 1 THEN n ELSE i - 1])}
         IN  Cardinality(crossings) % 2 = 1

orient(ox, oy, px, py, qx, qy) ==
    LET v == (py - oy) * (qx - px) - (px - ox) * (qy - py)
    IN  IF v < 0 THEN -1 ELSE IF v > 0 THEN 1 ELSE 0

onSegment(ax, ay, bx, by, qx, qy) ==
    /\ Min2(ax, bx) <= qx
    /\ qx <= Max2(ax, bx)
    /\ Min2(ay, by) <= qy
    /\ qy <= Max2(ay, by)

segmentsIntersect(ax, ay, bx, by, cx, cy, dx, dy) ==
    LET o1 == orient(ax, ay, bx, by, cx, cy)
        o2 == orient(ax, ay, bx, by, dx, dy)
        o3 == orient(cx, cy, dx, dy, ax, ay)
        o4 == orient(cx, cy, dx, dy, bx, by)
    IN  \/ (o1 # o2 /\ o3 # o4)
        \/ (o1 = 0 /\ onSegment(ax, ay, bx, by, cx, cy))
        \/ (o2 = 0 /\ onSegment(ax, ay, bx, by, dx, dy))
        \/ (o3 = 0 /\ onSegment(cx, cy, dx, dy, ax, ay))
        \/ (o4 = 0 /\ onSegment(cx, cy, dx, dy, bx, by))

\* A region is always { exterior, holes } here: unionPolygons builds them.
rectInsideRegion(x, y, w, h, region) ==
    LET exterior == region.exterior
        holes    == region.holes
        corners  == {Pt(x, y), Pt(x + w, y), Pt(x + w, y + h), Pt(x, y + h)}
        rectSegments == { <<x, y, x + w, y>>,
                          <<x + w, y, x + w, y + h>>,
                          <<x + w, y + h, x, y + h>>,
                          <<x, y + h, x, y>> }
        allRings == <<exterior>> \o holes
    IN  /\ \A c \in corners :
             /\ pointInPolygon(c.x, c.y, exterior)
             /\ \A hi \in 1..Len(holes) : ~pointInPolygon(c.x, c.y, holes[hi])
        /\ \A r \in 1..Len(allRings) :
             \A i \in 1..Len(allRings[r]) :
               \A a \in {allRings[r][i]} :
                 \A b \in {allRings[r][(i % Len(allRings[r])) + 1]} :
                   \A seg \in rectSegments :
                     ~segmentsIntersect(a.x, a.y, b.x, b.y,
                                        seg[1], seg[2], seg[3], seg[4])

MinOf(s) == CHOOSE v \in Range(s) : \A w \in Range(s) : v <= w

MaxOf(s) == CHOOSE v \in Range(s) : \A w \in Range(s) : v >= w

\* Bounding box of the exterior ring only.
bbox(region) ==
    LET points == region.exterior
    IN  IF Len(points) = 0 THEN [x |-> 0, y |-> 0, w |-> 0, h |-> 0]
        ELSE LET xs == [i \in 1..Len(points) |-> points[i].x]
                 ys == [i \in 1..Len(points) |-> points[i].y]
             IN  [x |-> MinOf(xs), y |-> MinOf(ys),
                  w |-> MaxOf(xs) - MinOf(xs), h |-> MaxOf(ys) - MinOf(ys)]

(***************************************************************************)
(* covering.ts: squares                                                    *)
(***************************************************************************)
\* `${s.x},${s.y},${s.size}`: the three numbers, separated; the key of a
\* square is the triple of its fields.
squareKey(s) == <<s.x, s.y, s.size>>

squaresToRects(squares) ==
    [i \in 1..Len(squares) |->
        [x |-> squares[i].x, y |-> squares[i].y,
         w |-> squares[i].size, h |-> squares[i].size]]

\* The number of i >= 0 with i * step < extent (step > 0).
GridCount(extent, step) ==
    IF extent <= 0 THEN 0 ELSE (extent + step - 1) \div step

\* Cells in the order of the loops: i outer, j inner.
fillGrid(region, minSize) ==
    LET bb == bbox(region)
        ni == GridCount(bb.w, minSize)
        nj == GridCount(bb.h, minSize)
        cells == [n \in 1..(ni * nj) |->
                    [x |-> bb.x + ((n - 1) \div nj) * minSize,
                     y |-> bb.y + ((n - 1) % nj) * minSize,
                     size |-> minSize]]
    IN  SelectSeq(cells,
                  LAMBDA s : rectInsideRegion(s.x, s.y, minSize, minSize, region))

\* Math.floor; every number of the model is an integer.
MathFloor(v) == v

\* The while loop of kHalvingRange, entered with k and the set seen.
RECURSIVE kHalvingFrom(_, _, _)
kHalvingFrom(k, min, seen) ==
    IF k < min THEN <<>>
    ELSE LET out  == IF k \in seen THEN <<>> ELSE <<k>>
             next == MathFloor(k \div 2)
         IN  IF next >= k THEN out
             ELSE out \o kHalvingFrom(next, min, seen \cup {k})

\* Faulty variant of kHalvingRange: the loop runs while k > min.
RECURSIVE kHalvingFromExclusive(_, _, _)
kHalvingFromExclusive(k, min, seen) ==
    IF k <= min THEN <<>>
    ELSE LET out  == IF k \in seen THEN <<>> ELSE <<k>>
             next == MathFloor(k \div 2)
         IN  IF next >= k THEN out
             ELSE out \o kHalvingFromExclusive(next, min, seen \cup {k})

kHalvingRangeExclusive(maxK, minK) ==
    kHalvingFromExclusive(MathFloor(maxK), Max2(2, MathFloor(minK)), {})

kHalvingRange(maxK, minK) ==
    kHalvingFrom(MathFloor(maxK), Max2(2, MathFloor(minK)), {})

hasBlock(squareSet, x, y, size, k) ==
    \A di \in 0..(k - 1) : \A dj \in 0..(k - 1) :
        squareKey([x |-> x + di * size, y |-> y + dj * size, size |-> size])
            \in squareSet

\* Faulty variant of hitBefore: the sizes are not sorted, list order decides.
hitBeforeUnsorted(squareList, a, b) ==
    \/ a[1] < b[1]
    \/ a[1] = b[1] /\ a[2] <= b[2]

\* hit a = <<n, i>> (ladder[n] and squareList[i] make a block) comes before
\* hit b in the loops of findMerge: k in ladder order, then size ascending
\* (sizes.sort), then list order (the order within bySize.get(size)).
hitBefore(squareList, a, b) ==
    \/ a[1] < b[1]
    \/ /\ a[1] = b[1]
       /\ \/ squareList[a[2]].size < squareList[b[2]].size
          \/ squareList[a[2]].size = squareList[b[2]].size /\ a[2] <= b[2]

\* Faulty variant of findMerge: the ladder is tried from its smallest value.
findMergeSmallestFirst(squareSet, squareList, maxK, minK, excludeKeys) ==
    LET ladder == kHalvingRange(maxK, minK)
    IN  Let({h \in (1..Len(ladder)) \X (1..Len(squareList)) :
                /\ squareKey(squareList[h[2]]) \notin excludeKeys
                /\ hasBlock(squareSet, squareList[h[2]].x, squareList[h[2]].y,
                            squareList[h[2]].size, ladder[h[1]])},
            LAMBDA hits :
                IF hits = {} THEN <<>>
                ELSE Let(CHOOSE a \in hits : \A b \in hits :
                            hitBefore(squareList, <<-a[1], a[2]>>, <<-b[1], b[2]>>),
                         LAMBDA a : << [x |-> squareList[a[2]].x, y |-> squareList[a[2]].y,
                                        size |-> squareList[a[2]].size,
                                        k |-> ladder[a[1]]] >>))

\* A MergeResult | null is a sequence of at most one MergeResult: the first
\* success of the loops.
findMerge(squareSet, squareList, maxK, minK, excludeKeys) ==
    LET ladder == kHalvingRange(maxK, minK)
    IN  Let({h \in (1..Len(ladder)) \X (1..Len(squareList)) :
                /\ squareKey(squareList[h[2]]) \notin excludeKeys
                /\ hasBlock(squareSet, squareList[h[2]].x, squareList[h[2]].y,
                            squareList[h[2]].size, ladder[h[1]])},
            LAMBDA hits :
                IF hits = {} THEN <<>>
                ELSE Let(CHOOSE a \in hits : \A b \in hits : hitBefore(squareList, a, b),
                         LAMBDA a : << [x |-> squareList[a[2]].x, y |-> squareList[a[2]].y,
                                        size |-> squareList[a[2]].size,
                                        k |-> ladder[a[1]]] >>))

\* Faulty variant of nextMerge: the key excluded beside the merged keys is
\* that of the first square of the list, which the shortcut has not tried.
nextMergeExcludingFirst(squares, squareSet, mergedKeys, capK, capMinK) ==
    LET ladder == kHalvingRange(capK, capMinK)
        n      == Len(squares)
    IN  Let(IF n = 0 THEN {}
            ELSE {m \in 1..Len(ladder) :
                    hasBlock(squareSet, squares[n].x, squares[n].y,
                             squares[n].size, ladder[m])},
            LAMBDA ks :
                IF ks # {}
                THEN << [x |-> squares[n].x, y |-> squares[n].y,
                         size |-> squares[n].size, k |-> ladder[Least(ks)]] >>
                ELSE findMerge(squareSet, squares, capK, capMinK,
                               mergedKeys \cup
                                 (IF n > 0 THEN {squareKey(squares[1])} ELSE {})))

\* Lines 118-132 of runCoveringSquares: the merge of one loop iteration.
\* First the most recently added square with each k of the ladder, then
\* findMerge with the merged keys and that square excluded.
nextMerge(squares, squareSet, mergedKeys, capK, capMinK) ==
    LET ladder == kHalvingRange(capK, capMinK)
        n      == Len(squares)
    IN  Let(IF n = 0 THEN {}
            ELSE {m \in 1..Len(ladder) :
                    hasBlock(squareSet, squares[n].x, squares[n].y,
                             squares[n].size, ladder[m])},
            LAMBDA ks :
                IF ks # {}
                THEN << [x |-> squares[n].x, y |-> squares[n].y,
                         size |-> squares[n].size, k |-> ladder[Least(ks)]] >>
                ELSE findMerge(squareSet, squares, capK, capMinK,
                               mergedKeys \cup
                                 (IF n > 0 THEN {squareKey(squares[n])} ELSE {})))

\* Faulty variant of toRemove: only the anchor square of the block is removed.
toRemoveAnchorOnly(merge) ==
    {squareKey([x |-> merge.x, y |-> merge.y, size |-> merge.size])}

\* Faulty variant of toRemove: the squares of the block are not removed.
toRemoveNothing(merge) == {}

\* Faulty variant of toRemove: the loop over dj is missing.
toRemoveRowOnly(merge) ==
    {squareKey([x |-> merge.x + di * merge.size, y |-> merge.y, size |-> merge.size]) :
        di \in 0..(merge.k - 1)}

\* Lines 137-142: the k*k squares of the block.
toRemove(merge) ==
    {squareKey([x |-> merge.x + di * merge.size, y |-> merge.y + dj * merge.size,
                size |-> merge.size]) :
        di \in 0..(merge.k - 1), dj \in 0..(merge.k - 1)}

\* Faulty variant of newSquare: the merged square keeps the size of a cell.
newSquareSameSize(merge) ==
    [x |-> merge.x, y |-> merge.y, size |-> merge.size]

\* Line 144: the square that replaces the block.
newSquare(merge) ==
    [x |-> merge.x, y |-> merge.y, size |-> merge.size * merge.k]

(***************************************************************************)
(* covering.ts: rectangles                                                 *)
(***************************************************************************)
rectWh(r) == [x |-> r.x, y |-> r.y, w |-> r.w, h |-> r.h]

\* Faulty variant of mergedRect: rectangles stacked in y are not merged.
mergedRectSideOnly(a, b) ==
    IF a.y = b.y /\ a.h = b.h
    THEN IF a.x + a.w = b.x
         THEN << [x |-> a.x, y |-> a.y, w |-> a.w + b.w, h |-> a.h] >>
         ELSE IF b.x + b.w = a.x
         THEN << [x |-> b.x, y |-> b.y, w |-> a.w + b.w, h |-> a.h] >>
         ELSE <<>>
    ELSE <<>>

\* Lines 72-82: the merged rectangle of a and b, or none.
mergedRect(a, b) ==
    LET side == IF a.y = b.y /\ a.h = b.h
                THEN IF a.x + a.w = b.x
                     THEN << [x |-> a.x, y |-> a.y, w |-> a.w + b.w, h |-> a.h] >>
                     ELSE IF b.x + b.w = a.x
                     THEN << [x |-> b.x, y |-> b.y, w |-> a.w + b.w, h |-> a.h] >>
                     ELSE <<>>
                ELSE <<>>
    IN  IF side = <<>> /\ a.x = b.x /\ a.w = b.w
        THEN IF a.y + a.h = b.y
             THEN << [x |-> a.x, y |-> a.y, w |-> a.w, h |-> a.h + b.h] >>
             ELSE IF b.y + b.h = a.y
             THEN << [x |-> b.x, y |-> b.y, w |-> a.w, h |-> a.h + b.h] >>
             ELSE <<>>
        ELSE side

insideSomeRegion(m, regions) ==
    \E r \in 1..Len(regions) : rectInsideRegion(m.x, m.y, m.w, m.h, regions[r])

\* Faulty variant of findAdjacentMergeablePair: the loops go on after a
\* success, and the last pair found is returned.
findAdjacentMergeablePairLast(rects, regions) ==
    Let({p \in (1..Len(rects)) \X (1..Len(rects)) :
            /\ p[1] < p[2]
            /\ \E m \in {mergedRect(rectWh(rects[p[1]]), rectWh(rects[p[2]]))} :
                   m # <<>> /\ insideSomeRegion(m[1], regions)},
        LAMBDA ok :
            IF ok = {} THEN <<>>
            ELSE Let(CHOOSE a \in ok : \A b \in ok :
                        a[1] > b[1] \/ (a[1] = b[1] /\ a[2] >= b[2]),
                     LAMBDA p :
                        << [i |-> p[1], j |-> p[2],
                            merged |-> mergedRect(rectWh(rects[p[1]]),
                                                  rectWh(rects[p[2]]))[1]] >>))

\* An AdjacentMergePair | null is a sequence of at most one pair: the first
\* (i, j), i < j, in the order of the two loops.
findAdjacentMergeablePair(rects, regions) ==
    Let({p \in (1..Len(rects)) \X (1..Len(rects)) :
            /\ p[1] < p[2]
            /\ \E m \in {mergedRect(rectWh(rects[p[1]]), rectWh(rects[p[2]]))} :
                   m # <<>> /\ insideSomeRegion(m[1], regions)},
        LAMBDA ok :
            IF ok = {} THEN <<>>
            ELSE Let(CHOOSE a \in ok : \A b \in ok :
                        a[1] < b[1] \/ (a[1] = b[1] /\ a[2] <= b[2]),
                     LAMBDA p :
                        << [i |-> p[1], j |-> p[2],
                            merged |-> mergedRect(rectWh(rects[p[1]]),
                                                  rectWh(rects[p[2]]))[1]] >>))

RECURSIVE dropAt(_, _, _, _)
dropAt(rects, i, j, idx) ==
    IF idx > Len(rects) THEN <<>>
    ELSE (IF idx # i /\ idx # j THEN <<rects[idx]>> ELSE <<>>)
            \o dropAt(rects, i, j, idx + 1)

\* Faulty variant of replacePairWithMerged: the pair is not filtered out.
replacePairKeepingPair(rects, i, j, merged) == Append(rects, merged)

\* Lines 91-95: rects without the i-th and j-th, then the merged rectangle.
replacePairWithMerged(rects, i, j, merged) ==
    Append(dropAt(rects, i, j, 1), merged)

(***************************************************************************)
(* covering.ts: circles.  cx, cy and r of a circle are in half units       *)
(* (twice the value of the code), the ring coordinates they are compared   *)
(* with are doubled accordingly.                                           *)
(***************************************************************************)
RECURSIVE diameterHalvingFrom(_, _, _)
diameterHalvingFrom(d, min, seen) ==
    IF d < min THEN <<>>
    ELSE LET out  == IF d \in seen THEN <<>> ELSE <<d>>
             next == MathFloor(d \div 2)
         IN  IF next >= d THEN out
             ELSE out \o diameterHalvingFrom(next, min, seen \cup {d})

diameterHalvingRange(maxK, minK) ==
    diameterHalvingFrom(MathFloor(maxK), Max2(2, MathFloor(minK)), {})

\* Faulty variant of circleOverlapsExisting: the radius of the circle placed
\* before is left out of the sum.
circleOverlapsExistingOwnRadius(cx, cy, r, circles) ==
    \E i \in 1..Len(circles) :
        LET c == circles[i]
        IN  (cx - c.cx) * (cx - c.cx) + (cy - c.cy) * (cy - c.cy) < r * r

\* Math.hypot(cx - c.cx, cy - c.cy) < r + c.r, squared on both sides.
circleOverlapsExisting(cx, cy, r, circles) ==
    \E i \in 1..Len(circles) :
        LET c == circles[i]
        IN  (cx - c.cx) * (cx - c.cx) + (cy - c.cy) * (cy - c.cy)
                < (r + c.r) * (r + c.r)

\* pointToSegmentDist(p, a, b) < r, squared and cleared of the division by
\* ab2; p and r in half units, a and b doubled by the caller.
segmentCloserThan(px, py, ax, ay, bx, by, r) ==
    LET abx == bx - ax
        aby == by - ay
        apx == px - ax
        apy == py - ay
        ab2 == abx * abx + aby * aby
        dot == apx * abx + apy * aby
        ap2 == apx * apx + apy * apy
        bp2 == (px - bx) * (px - bx) + (py - by) * (py - by)
    IN  IF ab2 <= 0 \/ dot <= 0 THEN ap2 < r * r
        ELSE IF dot >= ab2 THEN bp2 < r * r
        ELSE ap2 * ab2 - dot * dot < r * r * ab2

doubled(points) == [i \in 1..Len(points) |-> Pt(2 * points[i].x, 2 * points[i].y)]

\* The centre is inside the exterior and outside every hole, and no edge of
\* any ring comes closer to the centre than r.
circleInsideRegion(cx, cy, r, region) ==
    LET exterior == doubled(region.exterior)
        holes    == [h \in 1..Len(region.holes) |-> doubled(region.holes[h])]
        allRings == <<exterior>> \o holes
    IN  /\ pointInPolygon(cx, cy, exterior)
        /\ \A h \in 1..Len(holes) : ~pointInPolygon(cx, cy, holes[h])
        /\ \A g \in 1..Len(allRings) :
             LET points == allRings[g]
                 n      == Len(points)
             IN  \A i \in 1..n :
                   ~segmentCloserThan(cx, cy, points[i].x, points[i].y,
                                      points[(i % n) + 1].x, points[(i % n) + 1].y, r)

\* Lines 232-244 for one region: the grid points in the order of the loops
\* (i outer, j inner); i runs while cx - r <= bb.x + bb.w, that is
\* i * diameter <= bb.w.
circleCandidates(region, diameter) ==
    LET bb == bbox(region)
        ni == (bb.w \div diameter) + 1
        nj == (bb.h \div diameter) + 1
    IN  [n \in 1..(ni * nj) |->
            [cx |-> 2 * bb.x + diameter + 2 * ((n - 1) \div nj) * diameter,
             cy |-> 2 * bb.y + diameter + 2 * ((n - 1) % nj) * diameter,
             r  |-> diameter,
             region |-> region]]

RECURSIVE placeCircles(_, _, _)
placeCircles(cands, circles, n) ==
    IF n > Len(cands) THEN circles
    ELSE Let(IF /\ circleInsideRegion(cands[n].cx, cands[n].cy, cands[n].r,
                                      cands[n].region)
                /\ ~circleOverlapsExisting(cands[n].cx, cands[n].cy, cands[n].r, circles)
             THEN Append(circles,
                         [cx |-> cands[n].cx, cy |-> cands[n].cy, r |-> cands[n].r])
             ELSE circles,
             LAMBDA placed : placeCircles(cands, placed, n + 1))

\* Lines 229-245: one pass of the for loop over the diameters.
circlePass(regions, diameter, circles) ==
    Let(Flatten([g \in 1..Len(regions) |-> circleCandidates(regions[g], diameter)]),
        LAMBDA cands : placeCircles(cands, circles, 1))

(***************************************************************************)
(* covering.ts: union of the input polygons and its area                   *)
(***************************************************************************)
\* GeoJSON: a ring is a sequence of <<x, y>>, a polygon a sequence of rings,
\* a multipolygon a sequence of polygons.
closeRing(ring) ==
    IF Len(ring) > 0 /\ (ring[1][1] # ring[Len(ring)][1] \/ ring[1][2] # ring[Len(ring)][2])
    THEN Append(ring, <<ring[1][1], ring[1][2]>>)
    ELSE ring

toMartinezPolygon(points) ==
    << closeRing([i \in 1..Len(points) |-> <<points[i].x, points[i].y>>]) >>

ringToPoints(ring) ==
    IF Len(ring) = 0 THEN <<>>
    ELSE LET pts == [i \in 1..Len(ring) |-> Pt(ring[i][1], ring[i][2])]
             n   == Len(pts)
             open == IF n > 1 /\ pts[1].x = pts[n].x /\ pts[1].y = pts[n].y
                     THEN SubSeq(pts, 1, n - 1) ELSE pts
         IN  IF Len(open) >= 3 THEN open ELSE <<>>

\* Twice the value of the code (which returns a / 2).
signedArea(pts) ==
    LET n == Len(pts)
    IN  SumSeq([i \in 1..n |->
                  pts[i].x * pts[(i % n) + 1].y - pts[(i % n) + 1].x * pts[i].y])

\* byArea.sort((a, b) => b.a - a.a): descending area, equal areas in their
\* order (the sort is stable).  rank[i] is the place of rings[i].
sortedByArea(rings) ==
    LET n     == Len(rings)
        areas == [i \in 1..n |-> Abs(signedArea(rings[i]))]
        rank  == [i \in 1..n |->
                    1 + Cardinality({j \in 1..n :
                            areas[j] > areas[i] \/ (areas[j] = areas[i] /\ j < i)})]
    IN  [p \in 1..n |-> rings[CHOOSE i \in 1..n : rank[i] = p]]

\* The fold going on past a null result, with the accumulator it had.
RECURSIVE foldUnionSkippingNull(_, _, _, _)
foldUnionSkippingNull(polygonList, unionResults, acc, i) ==
    IF i > Len(polygonList) THEN [isNull |-> FALSE, coords |-> acc]
    ELSE LET result == unionResults[i - 1]
         IN  foldUnionSkippingNull(polygonList, unionResults,
                                   IF result.isNull THEN acc ELSE result.coords, i + 1)

\* martinez.union is the external clipping library: its result for the i-th
\* union of the fold is unionResults[i - 1], a record
\* [isNull |-> BOOLEAN, coords |-> polygon or multipolygon].
RECURSIVE foldUnion(_, _, _, _)
foldUnion(polygonList, unionResults, acc, i) ==
    IF i > Len(polygonList) THEN [isNull |-> FALSE, coords |-> acc]
    ELSE LET result == unionResults[i - 1]
         IN  IF result.isNull THEN [isNull |-> TRUE, coords |-> <<>>]
             ELSE foldUnion(polygonList, unionResults, result.coords, i + 1)

unionPolygons(polygonList, unionResults) ==
    IF Len(polygonList) = 0 THEN <<>>
    ELSE IF Len(polygonList) = 1
    THEN << [exterior |-> polygonList[1], holes |-> <<>>] >>
    ELSE LET folded == foldUnion(polygonList, unionResults,
                                 toMartinezPolygon(polygonList[1]), 2)
             acc    == folded.coords
         IN  IF folded.isNull THEN <<>>
             ELSE IF Len(acc) > 1 /\ \A p \in 1..Len(acc) : Len(acc[p]) = 1
             THEN [p \in 1..Len(acc) |->
                     [exterior |-> ringToPoints(acc[p][1]),
                      holes |-> SelectSeq([h \in 1..(Len(acc[p]) - 1) |->
                                              ringToPoints(acc[p][h + 1])],
                                          LAMBDA q : Len(q) > 0)]]
             ELSE LET rings == SelectSeq([r \in 1..Len(acc) |-> ringToPoints(acc[r])],
                                         LAMBDA q : Len(q) >= 3)
                  IN  IF Len(rings) = 0 THEN <<>>
                      ELSE LET byArea == sortedByArea(rings)
                           IN  << [exterior |-> byArea[1], holes |-> Tail(byArea)] >>

\* The exterior's area taken with its sign.
regionAreaSigned(region) ==
    Max2(0, signedArea(region.exterior)
              - SumSeq([h \in 1..Len(region.holes) |-> Abs(signedArea(region.holes[h]))]))

\* Twice the value of the code, as signedArea.
regionArea(region) ==
    Max2(0, Abs(signedArea(region.exterior))
              - SumSeq([h \in 1..Len(region.holes) |-> Abs(signedArea(region.holes[h]))]))

getUnionArea(polygonList, unionResults) ==
    LET regs == unionPolygons(polygonList, unionResults)
    IN  SumSeq([r \in 1..Len(regs) |-> regionArea(regs[r])])

(***************************************************************************)
(* Inputs of a run: the polygon list, what the clipping library returns    *)
(* for its unions, and the options.                                        *)
(***************************************************************************)
Rect(x0, y0, x1, y1) == <<Pt(x0, y0), Pt(x1, y0), Pt(x1, y1), Pt(x0, y1)>>

geoRing(points) == toMartinezPolygon(points)[1]

geoResult(rings) == [isNull |-> FALSE, coords |-> rings]

geoNull == [isNull |-> TRUE, coords |-> <<>>]

\* PRESETS 'rectangle' and 'lshape'
presetRectangle == Rect(0, 0, 80, 60)

presetLshape == <<Pt(0, 0), Pt(80, 0), Pt(80, 30), Pt(40, 30), Pt(40, 60), Pt(0, 60)>>

\* Two polygons whose union is the square (0,0)-(9,9) with the hole (3,3)-(6,6)
ringLeft == <<Pt(0, 0), Pt(5, 0), Pt(5, 3), Pt(3, 3), Pt(3, 6), Pt(5, 6), Pt(5, 9), Pt(0, 9)>>

ringRight == <<Pt(5, 0), Pt(9, 0), Pt(9, 9), Pt(5, 9), Pt(5, 6), Pt(6, 6), Pt(6, 3), Pt(5, 3)>>

\* Two polygons whose union is a square (8,8)-(19,19) with a sliver to the
\* origin and the hole (10,10)-(17,17)
frameLeft == <<Pt(0, 0), Pt(9, 8), Pt(13, 8), Pt(13, 10), Pt(10, 10), Pt(10, 17),
               Pt(13, 17), Pt(13, 19), Pt(8, 19), Pt(8, 9)>>

frameRight == <<Pt(13, 8), Pt(19, 8), Pt(19, 19), Pt(13, 19), Pt(13, 17), Pt(17, 17),
                Pt(17, 10), Pt(13, 10)>>

frameExterior == <<Pt(0, 0), Pt(9, 8), Pt(19, 8), Pt(19, 19), Pt(8, 19), Pt(8, 9)>>

AllShapes == {"squares", "rectangles", "circles"}

\* grain: the unit of minSize for the input.  shapes: the strategies run on it.
Scenarios ==
    { [name |-> "empty", polygons |-> <<>>, unions |-> <<>>,
       grain |-> 1, shapes |-> AllShapes],
      [name |-> "rectangle", polygons |-> <<presetRectangle>>, unions |-> <<>>,
       grain |-> 10, shapes |-> {"squares", "rectangles"}],
      [name |-> "lshape", polygons |-> <<presetLshape>>, unions |-> <<>>,
       grain |-> 10, shapes |-> {"squares", "rectangles"}],
      [name |-> "small", polygons |-> <<Rect(0, 0, 5, 4)>>, unions |-> <<>>,
       grain |-> 1, shapes |-> AllShapes],
      [name |-> "bar", polygons |-> <<Rect(0, 0, 6, 4)>>, unions |-> <<>>,
       grain |-> 1, shapes |-> AllShapes],
      [name |-> "diamond", polygons |-> << <<Pt(0, 4), Pt(4, 0), Pt(8, 4), Pt(4, 8)>> >>,
       unions |-> <<>>, grain |-> 1, shapes |-> AllShapes],
      [name |-> "disjoint", polygons |-> <<Rect(0, 0, 4, 4), Rect(6, 1, 10, 5)>>,
       unions |-> << geoResult(<< <<geoRing(Rect(0, 0, 4, 4))>>,
                                   <<geoRing(Rect(6, 1, 10, 5))>> >>) >>,
       grain |-> 1, shapes |-> AllShapes],
      [name |-> "annulus", polygons |-> <<ringLeft, ringRight>>,
       unions |-> << geoResult(<<geoRing(Rect(0, 0, 9, 9)), geoRing(Rect(3, 3, 6, 6))>>) >>,
       grain |-> 1, shapes |-> AllShapes],
      [name |-> "frame", polygons |-> <<frameLeft, frameRight>>,
       unions |-> << geoResult(<<geoRing(frameExterior), geoRing(Rect(10, 10, 17, 17))>>) >>,
       grain |-> 9, shapes |-> {"squares", "rectangles"}],
      [name |-> "cancelled", polygons |-> <<Rect(0, 0, 4, 4), Rect(2, 2, 6, 6)>>,
       unions |-> <<geoNull>>, grain |-> 1, shapes |-> AllShapes] }

\* unionPolygons(polygons) of each input, and the concatenated fillGrid of its
\* regions for each minSize: what lines 338 and 106-109 compute, tabulated.
regionsOf == [s \in Scenarios |-> unionPolygons(s.polygons, s.unions)]

gridOf ==
    [s \in Scenarios |->
        [m \in {s.grain * k : k \in 1..MaxMinSize} |->
            Flatten([r \in 1..Len(regionsOf[s]) |-> fillGrid(regionsOf[s][r], m)])]]

(***************************************************************************)
(* State of one run                                                        *)
(***************************************************************************)
VARIABLES
    input,       \* the scenario: polygons and the library's union results
    options,     \* { minSize, maxK, minK, shape }
    pc,          \* where the generator is suspended
    regions,     \* runCovering: regions
    squares,     \* runCoveringSquares: squares
    squareSet,   \* runCoveringSquares: squareSet
    mergedKeys,  \* runCoveringSquares: mergedKeys
    rects,       \* runCoveringRectangles: rects
    circles,     \* runCoveringCircles: circles
    passes,      \* runCoveringCircles: diameters of the ladder already passed
    iteration,   \* iteration of the generator that is running
    yielded      \* the steps the consumer has received, in order

vars == <<input, options, pc, regions, squares, squareSet, mergedKeys, rects,
          circles, passes, iteration, yielded>>

\* Lines 336-337 (and 169-170, 222-223, which repeat them on the capped values)
capK == Max2(2, Min2(1024, MathFloor(options.maxK)))

\* Faulty variant of capMinK: minK is not limited by capK.
capMinKUnlimited == Max2(2, MathFloor(options.minK))

capMinK == Max2(2, Min2(capK, MathFloor(options.minK)))

\* A CoveringStep; line is the line of covering.ts of the yield that made it.
Step(rectangles, cs, it, line) ==
    [rectangles |-> rectangles, circles |-> cs, remaining |-> <<>>,
     iteration |-> it, line |-> line]

Last(s) == s[Len(s)]

Init ==
    /\ input \in Scenarios
    /\ options \in [minSize : {input.grain * m : m \in 1..MaxMinSize},
                    maxK : 1..MaxMaxK,
                    minK : 1..MaxMinK,
                    shape : input.shapes]
    /\ pc = "start"
    /\ regions = <<>>
    /\ squares = <<>>
    /\ squareSet = {}
    /\ mergedKeys = {}
    /\ rects = <<>>
    /\ circles = <<>>
    /\ passes = 0
    /\ iteration = 0
    /\ yielded = <<>>

(***************************************************************************)
(* The resumptions of the generator                                        *)
(***************************************************************************)
\* runCovering, lines 335-342: no regions, the single empty step.
StartEmpty ==
    /\ pc = "start"
    /\ regionsOf[input] = <<>>
    /\ yielded' = Append(yielded, Step(<<>>, <<>>, 0, 340))
    /\ pc' = "empty"
    /\ UNCHANGED <<input, options, regions, squares, squareSet, mergedKeys, rects,
                   circles, passes, iteration>>

\* runCovering into runCoveringSquares (directly or through
\* runCoveringRectangles, which yields its steps unchanged), lines 106-112.
StartSquares ==
    /\ pc = "start"
    /\ options.shape \in {"squares", "rectangles"}
    /\ LET regs == regionsOf[input]
           grid == gridOf[input][options.minSize]
       IN  /\ regs # <<>>
           /\ regions' = regs
           /\ squares' = grid
           /\ squareSet' = {squareKey(grid[i]) : i \in 1..Len(grid)}
           /\ yielded' = Append(yielded, Step(squaresToRects(grid), <<>>, 0, 112))
    /\ mergedKeys' = {}
    /\ iteration' = 0
    /\ pc' = "squares"
    /\ UNCHANGED <<input, options, rects, circles, passes>>

\* runCoveringSquares, lines 117-154: one iteration of the loop that merges.
SquaresMerge ==
    /\ pc = "squares"
    /\ \E found \in {nextMerge(squares, squareSet, mergedKeys, capK, capMinK)} :
          /\ found # <<>>
          /\ \E gone \in {toRemove(found[1])}, made \in {newSquare(found[1])} :
                \E newSet \in {(squareSet \ gone) \cup {squareKey(made)}} :
                  \E list \in {Append(SelectSeq(squares,
                                                LAMBDA q : squareKey(q) \in newSet),
                                      made)} :
                    /\ squareSet' = newSet
                    /\ mergedKeys' = mergedKeys \cup gone
                    /\ squares' = list
                    /\ iteration' = iteration + 1
                    /\ yielded' = Append(yielded,
                                     Step(squaresToRects(list), <<>>, iteration + 1, 154))
    /\ UNCHANGED <<input, options, pc, regions, rects, circles, passes>>

\* runCoveringSquares, lines 117-133 and 157: no merge, the terminal yield.
SquaresFinal ==
    /\ pc = "squares"
    /\ nextMerge(squares, squareSet, mergedKeys, capK, capMinK) = <<>>
    /\ yielded' = Append(yielded, Step(squaresToRects(squares), <<>>, iteration, 157))
    /\ pc' = "squares_final"
    /\ UNCHANGED <<input, options, regions, squares, squareSet, mergedKeys, rects,
                   circles, passes, iteration>>

\* Faulty variant of rectsNow: the last step of the squares phase is not taken.
rectsNowStale == rects

\* Faulty variant of iterationNow: the count restarts after the squares phase.
iterationNowRestarted == IF pc = "squares_final" THEN 0 ELSE iteration

\* Faulty variant of inRectsLoop: the pair merging does not wait for the
\* squares generator to be done.
inRectsLoopEarly ==
    \/ pc \in {"squares", "squares_final"} /\ options.shape = "rectangles"
    \/ pc = "rects"

\* runCoveringRectangles after the squares generator is done (lines 178-179)
\* or at its own yield of line 186: the rectangles and iteration it holds.
rectsNow == IF pc = "squares_final" THEN Last(yielded).rectangles ELSE rects

iterationNow == IF pc = "squares_final" THEN Last(yielded).iteration ELSE iteration

inRectsLoop ==
    \/ pc = "squares_final" /\ options.shape = "rectangles"
    \/ pc = "rects"

\* runCoveringRectangles, lines 181-186: one pair merged.
RectsMerge ==
    /\ inRectsLoop
    /\ \E pair \in {findAdjacentMergeablePair(rectsNow, regions)} :
          /\ pair # <<>>
          /\ \E out \in {replacePairWithMerged(rectsNow, pair[1].i, pair[1].j,
                                                pair[1].merged)} :
                /\ rects' = out
                /\ iteration' = iterationNow + 1
                /\ yielded' = Append(yielded, Step(out, <<>>, iterationNow + 1, 186))
    /\ pc' = "rects"
    /\ UNCHANGED <<input, options, regions, squares, squareSet, mergedKeys, circles,
                   passes>>

\* runCoveringRectangles, lines 181-183 and 189: no pair, the terminal yield.
RectsFinal ==
    /\ inRectsLoop
    /\ findAdjacentMergeablePair(rectsNow, regions) = <<>>
    /\ rects' = rectsNow
    /\ iteration' = iterationNow
    /\ yielded' = Append(yielded, Step(rectsNow, <<>>, iterationNow, 189))
    /\ pc' = "rects_final"
    /\ UNCHANGED <<input, options, regions, squares, squareSet, mergedKeys, circles,
                   passes>>

\* Faulty variant of StartCircles: the dispatch on the shape comes before the
\* test for an empty region list.
StartCirclesUnchecked ==
    /\ pc = "start"
    /\ options.shape = "circles"
    /\ regions' = regionsOf[input]
    /\ circles' = <<>>
    /\ passes' = 0
    /\ iteration' = 0
    /\ yielded' = Append(yielded, Step(<<>>, <<>>, 0, 226))
    /\ pc' = "circles"
    /\ UNCHANGED <<input, options, squares, squareSet, mergedKeys, rects>>

\* runCovering into runCoveringCircles, lines 221-226.
StartCircles ==
    /\ pc = "start"
    /\ options.shape = "circles"
    /\ regionsOf[input] # <<>>
    /\ regions' = regionsOf[input]
    /\ circles' = <<>>
    /\ passes' = 0
    /\ iteration' = 0
    /\ yielded' = Append(yielded, Step(<<>>, <<>>, 0, 226))
    /\ pc' = "circles"
    /\ UNCHANGED <<input, options, squares, squareSet, mergedKeys, rects>>

\* Faulty variant of addingPasses: the test added > 0 is missing, every pass
\* yields.
addingPassesAll ==
    (passes + 1)..Len(diameterHalvingRange(capK, capMinK))

\* The passes from the suspension point that add a circle (a pass that adds
\* none leaves circles as it was and yields nothing).
addingPasses ==
    LET ladder == diameterHalvingRange(capK, capMinK)
    IN  {n \in (passes + 1)..Len(ladder) :
            Len(circlePass(regions, ladder[n], circles)) > Len(circles)}

\* runCoveringCircles, lines 228-249: on to the next pass that adds circles.
CirclesPass ==
    /\ pc = "circles"
    /\ \E adding \in {addingPasses} :
          /\ adding # {}
          /\ \E n \in {Least(adding)} :
                \E cs \in {circlePass(regions, diameterHalvingRange(capK, capMinK)[n],
                                       circles)} :
                  /\ circles' = cs
                  /\ passes' = n
                  /\ yielded' = Append(yielded, Step(<<>>, cs, iteration + 1, 248))
    /\ iteration' = iteration + 1
    /\ UNCHANGED <<input, options, pc, regions, squares, squareSet, mergedKeys, rects>>

\* runCoveringCircles, lines 228-252: no pass adds any more, the terminal yield.
CirclesFinal ==
    /\ pc = "circles"
    /\ addingPasses = {}
    /\ passes' = Len(diameterHalvingRange(capK, capMinK))
    /\ yielded' = Append(yielded, Step(<<>>, circles, iteration, 252))
    /\ pc' = "circles_final"
    /\ UNCHANGED <<input, options, regions, squares, squareSet, mergedKeys, rects,
                   circles, iteration>>

\* The resumption after the last yield: the generator returns (done: true).
Return ==
    /\ \/ pc = "empty"
       \/ pc = "squares_final" /\ options.shape # "rectangles"
       \/ pc = "rects_final"
       \/ pc = "circles_final"
    /\ pc' = "done"
    /\ UNCHANGED <<input, options, regions, squares, squareSet, mergedKeys, rects,
                   circles, passes, iteration, yielded>>

Next ==
    \/ StartEmpty
    \/ StartSquares
    \/ SquaresMerge
    \/ SquaresFinal
    \/ RectsMerge
    \/ RectsFinal
    \/ StartCircles
    \/ CirclesPass
    \/ CirclesFinal
    \/ Return

Spec == Init /\ [][Next]_vars

\* The consumer keeps calling next() until the generator is done.
FairSpec == Spec /\ WF_vars(Next)

(***************************************************************************)
(* runCovering on any integer options, fillGrid loop by loop.              *)
(*                                                                         *)
(* The options are the integers the caller passes, in range or not         *)
(* (line 335 replaces only an absent option by its default).  fillGrid is  *)
(* taken one iteration of its inner loop at a time; passes holds the       *)
(* position <<g, i, j>>: the region of line 107 and the counters of lines  *)
(* 33 and 34.                                                              *)
(***************************************************************************)
\* The inner loop of fillGrid is followed for at most MaxIter iterations
MaxIter == 8

RawSizes == (-1)..MaxMinSize

RawKs == ((-1)..MaxMaxK) \cup {1024, 1025}

RawInputs == {s \in Scenarios : s.name \in {"empty", "small", "disjoint"}}

InitOptions ==
    /\ input \in RawInputs
    /\ options \in [minSize : RawSizes, maxK : RawKs, minK : RawKs, shape : AllShapes]
    /\ pc = "start"
    /\ regions = <<>>
    /\ squares = <<>>
    /\ squareSet = {}
    /\ mergedKeys = {}
    /\ rects = <<>>
    /\ circles = <<>>
    /\ passes = 0
    /\ iteration = 0
    /\ yielded = <<>>

\* runCovering into runCoveringSquares, lines 338-353 and 106-107.
StartFillGrid ==
    /\ pc = "start"
    /\ options.shape \in {"squares", "rectangles"}
    /\ regionsOf[input] # <<>>
    /\ regions' = regionsOf[input]
    /\ squares' = <<>>
    /\ passes' = <<1, 0, 0>>
    /\ pc' = "fillGrid"
    /\ UNCHANGED <<input, options, squareSet, mergedKeys, rects, circles, iteration,
                   yielded>>

\* fillGrid, lines 34-39: one iteration of the inner loop.
FillGridCell ==
    /\ pc = "fillGrid"
    /\ passes[1] <= Len(regions)
    /\ passes[3] < MaxIter
    /\ \E bb \in {bbox(regions[passes[1]])} :
          /\ passes[2] * options.minSize < bb.w
          /\ passes[3] * options.minSize < bb.h
          /\ \E x \in {bb.x + passes[2] * options.minSize},
                y \in {bb.y + passes[3] * options.minSize} :
                squares' = IF rectInsideRegion(x, y, options.minSize, options.minSize,
                                               regions[passes[1]])
                           THEN Append(squares,
                                       [x |-> x, y |-> y, size |-> options.minSize])
                           ELSE squares
    /\ passes' = <<passes[1], passes[2], passes[3] + 1>>
    /\ UNCHANGED <<input, options, pc, regions, squareSet, mergedKeys, rects, circles,
                   iteration, yielded>>

\* fillGrid, lines 33-34: the inner loop is over, on to the next i.
FillGridNextColumn ==
    /\ pc = "fillGrid"
    /\ passes[1] <= Len(regions)
    /\ \E bb \in {bbox(regions[passes[1]])} :
          /\ passes[2] * options.minSize < bb.w
          /\ ~(passes[3] * options.minSize < bb.h)
    /\ passes' = <<passes[1], passes[2] + 1, 0>>
    /\ UNCHANGED <<input, options, pc, regions, squares, squareSet, mergedKeys, rects,
                   circles, iteration, yielded>>

\* fillGrid, lines 33 and 42, and line 107: the outer loop is over, on to the
\* next region.
FillGridNextRegion ==
    /\ pc = "fillGrid"
    /\ passes[1] <= Len(regions)
    /\ \E bb \in {bbox(regions[passes[1]])} :
          ~(passes[2] * options.minSize < bb.w)
    /\ passes' = <<passes[1] + 1, 0, 0>>
    /\ UNCHANGED <<input, options, pc, regions, squares, squareSet, mergedKeys, rects,
                   circles, iteration, yielded>>

\* runCoveringSquares, lines 107-115: every region is filled, step 0.
FillGridDone ==
    /\ pc = "fillGrid"
    /\ passes[1] > Len(regions)
    /\ squareSet' = {squareKey(squares[i]) : i \in 1..Len(squares)}
    /\ mergedKeys' = {}
    /\ iteration' = 0
    /\ passes' = 0
    /\ yielded' = Append(yielded, Step(squaresToRects(squares), <<>>, 0, 112))
    /\ pc' = "squares"
    /\ UNCHANGED <<input, options, regions, squares, rects, circles>>

NextOptions ==
    \/ StartEmpty
    \/ StartFillGrid
    \/ FillGridCell
    \/ FillGridNextColumn
    \/ FillGridNextRegion
    \/ FillGridDone
    \/ SquaresMerge
    \/ SquaresFinal
    \/ RectsMerge
    \/ RectsFinal
    \/ StartCircles
    \/ CirclesPass
    \/ CirclesFinal
    \/ Return

OptionsSpec == InitOptions /\ [][NextOptions]_vars

(***************************************************************************)
(* kHalvingRange on its own: the generator called with maxK and minK of    *)
(* options, yielded holding the values its consumer has received.          *)
(***************************************************************************)
\* maxK and minK of the ladder range over 0..MaxLadderK, and 1024
MaxLadderK == 33

LadderKs == (0..MaxLadderK) \cup {1024}

InitLadder ==
    /\ input \in {s \in Scenarios : s.name = "empty"}
    /\ options \in [minSize : {1}, maxK : LadderKs, minK : LadderKs, shape : {"squares"}]
    /\ pc = "ladder"
    /\ regions = <<>>
    /\ squares = <<>>
    /\ squareSet = {}
    /\ mergedKeys = {}
    /\ rects = <<>>
    /\ circles = <<>>
    /\ passes = 0
    /\ iteration = 0
    /\ yielded = <<>>

\* kHalvingRange, lines 311-315: the next value is yielded.
LadderYield ==
    /\ pc = "ladder"
    /\ \E ladder \in {kHalvingRange(options.maxK, options.minK)} :
          /\ Len(yielded) < Len(ladder)
          /\ yielded' = Append(yielded, ladder[Len(yielded) + 1])
    /\ UNCHANGED <<input, options, pc, regions, squares, squareSet, mergedKeys, rects,
                   circles, passes, iteration>>

\* kHalvingRange, lines 311 and 317-320: the loop is left, the generator is done.
LadderReturn ==
    /\ pc = "ladder"
    /\ Len(yielded) = Len(kHalvingRange(options.maxK, options.minK))
    /\ pc' = "done"
    /\ UNCHANGED <<input, options, regions, squares, squareSet, mergedKeys, rects,
                   circles, passes, iteration, yielded>>

NextLadder == LadderYield \/ LadderReturn

LadderSpec == InitLadder /\ [][NextLadder]_vars

(***************************************************************************)
(* Two generator objects of runCovering on the same (polygons, options),   *)
(* resumed in any order.  Every local of the generator functions belongs   *)
(* to the generator object; the variables hold the frame of the object     *)
(* being resumed, and the field twin of options keeps the frame of the     *)
(* other one.                                                              *)
(***************************************************************************)
frame ==
    [pc |-> pc, regions |-> regions, squares |-> squares, squareSet |-> squareSet,
     mergedKeys |-> mergedKeys, rects |-> rects, circles |-> circles,
     passes |-> passes, iteration |-> iteration, yielded |-> yielded]

\* The frame of a generator object that has not been resumed yet.
newFrame ==
    [pc |-> "start", regions |-> <<>>, squares |-> <<>>, squareSet |-> {},
     mergedKeys |-> {}, rects |-> <<>>, circles |-> <<>>,
     passes |-> 0, iteration |-> 0, yielded |-> <<>>]

TwinInputs == {s \in Scenarios : s.name \in {"empty", "small", "bar", "disjoint"}}

InitTwin ==
    /\ input \in TwinInputs
    /\ options \in [minSize : {input.grain * m : m \in 1..MaxMinSize},
                    maxK : 1..MaxMaxK,
                    minK : 1..MaxMinK,
                    shape : input.shapes,
                    twin : {newFrame}]
    /\ pc = "start"
    /\ regions = <<>>
    /\ squares = <<>>
    /\ squareSet = {}
    /\ mergedKeys = {}
    /\ rects = <<>>
    /\ circles = <<>>
    /\ passes = 0
    /\ iteration = 0
    /\ yielded = <<>>

\* The consumer turns to the other generator object: its next() calls resume
\* that object's frame, and the frame left is kept as it is.
Switch ==
    /\ options' = [options EXCEPT !.twin = frame]
    /\ pc' = options.twin.pc
    /\ regions' = options.twin.regions
    /\ squares' = options.twin.squares
    /\ squareSet' = options.twin.squareSet
    /\ mergedKeys' = options.twin.mergedKeys
    /\ rects' = options.twin.rects
    /\ circles' = options.twin.circles
    /\ passes' = options.twin.passes
    /\ iteration' = options.twin.iteration
    /\ yielded' = options.twin.yielded
    /\ UNCHANGED input

NextTwin == Next \/ Switch

TwinSpec == InitTwin /\ [][NextTwin]_vars

\* Faulty variant of aliasesLive: line 248 yields circles itself as well.
aliasesLiveInPasses(step) == step.line \in {248, 252}

\* The step object holds the array circles of the generator itself (line
\* 252), not a copy of it (line 248: [...circles]).
aliasesLive(step) == step.line = 252

\* The steps as their consumer reads them now: a step that holds the live
\* array shows what the array holds now.
stepsSeen(steps, liveCircles) ==
    [n \in 1..Len(steps) |->
        IF aliasesLive(steps[n]) THEN [steps[n] EXCEPT !.circles = liveCircles]
        ELSE steps[n]]

(***************************************************************************)
(* What the claims speak of                                                *)
(***************************************************************************)
started == Len(yielded) > 0

rectRun == options.shape \in {"squares", "rectangles"}

\* The yields that follow a merge: a k*k merge, a pair merge, a circle pass.
mergeLines == {154, 186, 248}

coveredArea(rs) == SumSeq([i \in 1..Len(rs) |-> rs[i].w * rs[i].h])

overlap(a, b) ==
    /\ a.x < b.x + b.w
    /\ b.x < a.x + a.w
    /\ a.y < b.y + b.h
    /\ b.y < a.y + a.h

\* The centres of the unit cells of r, in half units.  The rings have integer
\* vertices, so no centre lies on a ring or level with a vertex, and the
\* crossing count of the ray cast decides exactly whether it is inside.
cellCentres(r) ==
    {Pt(2 * (r.x + u) + 1, 2 * (r.y + v) + 1) : u \in 0..(r.w - 1), v \in 0..(r.h - 1)}

\* r lies in the exterior ring of the region and meets none of its holes.
insideRegionArea(r, region) ==
    LET exterior == doubled(region.exterior)
        holes    == [h \in 1..Len(region.holes) |-> doubled(region.holes[h])]
    IN  \A c \in cellCentres(r) :
            /\ pointInPolygon(c.x, c.y, exterior)
            /\ \A h \in 1..Len(holes) : ~pointInPolygon(c.x, c.y, holes[h])

\* C1: every rectangle of the step just yielded by a squares or rectangles
\* run lies inside the exterior ring of some region and overlaps no hole of
\* that region.
C1_RectanglesInsideUnion ==
    (started /\ rectRun) =>
        \A i \in 1..Len(Last(yielded).rectangles) :
            \E g \in 1..Len(regions) :
                insideRegionArea(Last(yielded).rectangles[i], regions[g])

\* C2: in every yielded step of a squares or rectangles run no two
\* rectangles overlap (which also excludes a rectangle that appears twice).
C2_NoOverlap ==
    (started /\ rectRun) =>
        LET rs == Last(yielded).rectangles
        IN  \A i \in 1..Len(rs) : \A j \in 1..Len(rs) :
                i < j => ~overlap(rs[i], rs[j])

C2_Witness ==
    /\ started
    /\ Last(yielded).line = 186
    /\ Len(regions) = 2
    /\ Len(Last(yielded).rectangles) >= 2

mergeYields == {n \in 1..Len(yielded) : yielded[n].line \in {154, 186}}

\* C3 (safety part): in a squares or rectangles run every merge strictly
\* reduces the number of shapes and there are at most as many merges as grid
\* cells in step 0.
mergesBounded ==
    (started /\ rectRun) =>
        /\ Cardinality(mergeYields) <= Len(yielded[1].rectangles)
        /\ \A n \in mergeYields :
               Len(yielded[n].rectangles) < Len(yielded[n - 1].rectangles)

\* C3: every run, whatever the strategy, completes after finitely many
\* steps, and the merges of a squares or rectangles run are bounded as above.
C3_Terminates == <>(pc = "done") /\ []mergesBounded

C3_Witness ==
    /\ pc = "done"
    /\ Cardinality(mergeYields) >= 3
    /\ options.shape = "rectangles"

\* C4: iteration starts at 0, grows by exactly 1 at each yield that reports
\* a merge (fewer rectangles, or more circles, than the step before) and is
\* repeated by every other yield.
C4_IterationCounts ==
    started =>
        /\ yielded[1].iteration = 0
        /\ \A n \in 1..(Len(yielded) - 1) :
             LET a == yielded[n]
                 b == yielded[n + 1]
                 merged == \/ Len(b.rectangles) < Len(a.rectangles)
                           \/ Len(b.circles) > Len(a.circles)
             IN  /\ merged <=> b.line \in mergeLines
                 /\ b.iteration = a.iteration + (IF merged THEN 1 ELSE 0)

C4_Witness ==
    /\ pc = "done"
    /\ options.shape = "rectangles"
    /\ \E n \in 1..Len(yielded) : yielded[n].line = 154
    /\ Last(yielded).iteration >= 3
    /\ \E n \in 1..Len(yielded) : yielded[n].line = 157 /\ yielded[n].iteration >= 1

\* C5: in a squares or rectangles run no step has more rectangles than the
\* step yielded before it.
C5_CountNonIncreasing ==
    rectRun =>
        \A n \in 1..(Len(yielded) - 1) :
            Len(yielded[n + 1].rectangles) <= Len(yielded[n].rectangles)

C5_Witness ==
    /\ rectRun
    /\ \E n \in 1..(Len(yielded) - 1) :
          /\ yielded[n + 1].line = 186
          /\ Len(yielded[n + 1].rectangles) = Len(yielded[n].rectangles) - 1
    /\ \E n \in 1..(Len(yielded) - 1) :
          /\ yielded[n + 1].line = 154
          /\ Len(yielded[n + 1].rectangles) < Len(yielded[n].rectangles)

\* C6: in a squares or rectangles run the covered area of a step is never
\* smaller than that of the step yielded before it.
C6_AreaNonDecreasing ==
    rectRun =>
        \A n \in 1..(Len(yielded) - 1) :
            coveredArea(yielded[n + 1].rectangles) >= coveredArea(yielded[n].rectangles)

C6_Witness ==
    /\ rectRun
    /\ Len(yielded) >= 3
    /\ yielded[2].line = 154
    /\ Last(yielded).line = 186
    /\ coveredArea(Last(yielded).rectangles) > 0

\* C7: in every step of a squares or rectangles run the covered area is at
\* most getUnionArea of the input polygons (both sides doubled).
C7_AreaWithinUnion ==
    (started /\ rectRun) =>
        2 * coveredArea(Last(yielded).rectangles)
            <= getUnionArea(input.polygons, input.unions)

\* C8: when a run over a non-empty region list has completed, its last two
\* steps have the same rectangles, the same circles and the same iteration.
C8_FinalRepeats ==
    (pc = "done" /\ regionsOf[input] # <<>>) =>
        /\ Len(yielded) >= 2
        /\ LET a == yielded[Len(yielded) - 1]
               b == yielded[Len(yielded)]
           IN  /\ a.rectangles = b.rectangles
               /\ a.circles = b.circles
               /\ a.iteration = b.iteration

C8_Witness ==
    /\ pc = "done"
    /\ options.shape = "rectangles"
    /\ Len(yielded) >= 2
    /\ yielded[Len(yielded) - 1].line = 186
    /\ Len(Last(yielded).rectangles) >= 1

\* The input gives no regions: no polygon, or a union that came back null.
noRegionsInput ==
    \/ Len(input.polygons) = 0
    \/ \E i \in 1..Len(input.unions) : input.unions[i].isNull

\* C9: on an input that gives no regions, whatever the shape option, the run
\* yields exactly one step, with no rectangles and iteration 0, and nothing
\* after it.
C9_EmptyInputOneStep ==
    (noRegionsInput /\ pc # "start") =>
        /\ pc \in {"empty", "done"}
        /\ Len(yielded) = 1
        /\ yielded[1].rectangles = <<>>
        /\ yielded[1].circles = <<>>
        /\ yielded[1].iteration = 0

C9_Witness ==
    /\ pc = "done"
    /\ input.name = "cancelled"
    /\ options.shape = "circles"
    /\ Len(yielded) = 1

\* The run of C10: the preset rectangle, minSize 20, maxK 4, minK 2, squares.
scenarioC10 ==
    /\ input.polygons = <<Rect(0, 0, 80, 60)>>
    /\ options = [minSize |-> 20, maxK |-> 4, minK |-> 2, shape |-> "squares"]

\* C10: in that run the first step holds exactly the 12 squares of size 20
\* at x in {0,20,40,60}, y in {0,20,40}, and the final step holds fewer.
C10_TwelveSquares ==
    (scenarioC10 /\ started) =>
        /\ Len(yielded[1].rectangles) = 12
        /\ Range(yielded[1].rectangles) =
              {[x |-> gx, y |-> gy, w |-> 20, h |-> 20] :
                  gx \in {0, 20, 40, 60}, gy \in {0, 20, 40}}
        /\ pc = "done" =>
              Len(Last(yielded).rectangles) < Len(yielded[1].rectangles)

(***************************************************************************)
(* Claims on the options and the ladder                                    *)
(***************************************************************************)
\* C11: whatever the integer options, in range or not, the run is that of
\* minSize clamped to at least 1: no loop of fillGrid makes more iterations
\* than the extent of the bounding box allows for a cell of size 1 or more,
\* and every square of the grid has a positive size.
C11_OptionsClamped ==
    (pc = "fillGrid" /\ passes[1] <= Len(regions)) =>
        /\ passes[2] <= bbox(regions[passes[1]]).w
        /\ passes[3] <= bbox(regions[passes[1]]).h
        /\ \A n \in 1..Len(squares) : squares[n].size >= 1

\* C12: whatever the integer maxK and minK, 2 <= capMinK <= capK <= 1024 and
\* every value of the ladder kHalvingRange(capK, capMinK) lies between
\* capMinK and capK.
C12_LadderWithinCaps ==
    /\ 2 <= capMinK
    /\ capMinK <= capK
    /\ capK <= 1024
    /\ \A n \in 1..Len(kHalvingRange(capK, capMinK)) :
          /\ capMinK <= kHalvingRange(capK, capMinK)[n]
          /\ kHalvingRange(capK, capMinK)[n] <= capK

\* A run with maxK above 1024 and minK below 2 that has merged a block.
C12_Witness ==
    /\ options.maxK > 1024
    /\ options.minK < 2
    /\ started
    /\ Last(yielded).line = 154

\* C13: kHalvingRange(maxK, minK) with 2 <= minK <= maxK yields at least
\* one value, maxK first, each following value the floor of half the one
\* before and smaller than it, none below minK, and it stops where the next
\* half would be below minK.
C13_LadderHalves ==
    (pc = "done" /\ 2 <= options.minK /\ options.minK <= options.maxK) =>
        /\ Len(yielded) >= 1
        /\ yielded[1] = options.maxK
        /\ \A n \in 1..(Len(yielded) - 1) :
              /\ yielded[n + 1] = yielded[n] \div 2
              /\ yielded[n + 1] < yielded[n]
        /\ \A n \in 1..Len(yielded) : yielded[n] >= options.minK
        /\ Last(yielded) \div 2 < options.minK

\* An odd maxK halved three times down to minK = 3.
C13_Witness ==
    /\ pc = "done"
    /\ options.minK = 3
    /\ Len(yielded) = 4
    /\ yielded[1] % 2 = 1
    /\ yielded[4] = 3

MaxPolygons == 3

\* Rect(0, 0, 4, 4) with its vertices in the opposite orientation
rectClockwise == <<Pt(0, 4), Pt(4, 4), Pt(4, 0), Pt(0, 0)>>

PolygonPool == {Rect(0, 0, 4, 4), rectClockwise, Rect(2, 2, 6, 6), Rect(6, 1, 10, 5)}

emptyResult == geoResult(<<>>)

polygonOneRing == geoResult(<<geoRing(Rect(0, 0, 6, 6))>>)

polygonWithHole == geoResult(<<geoRing(Rect(0, 0, 9, 9)), geoRing(Rect(3, 3, 6, 6))>>)

polygonHoleFirst == geoResult(<<geoRing(Rect(3, 3, 6, 6)), geoRing(Rect(0, 0, 9, 9))>>)

multiTwoShapes ==
    geoResult(<< <<geoRing(Rect(0, 0, 4, 4))>>, <<geoRing(Rect(6, 1, 10, 5))>> >>)

multiOneShape == geoResult(<< <<geoRing(Rect(0, 0, 6, 6))>> >>)

multiWithHole ==
    geoResult(<< <<geoRing(Rect(0, 0, 9, 9)), geoRing(Rect(3, 3, 6, 6))>>,
                 <<geoRing(Rect(11, 0, 13, 2))>> >>)

ResultPool == {geoNull, emptyResult, polygonOneRing, polygonWithHole, polygonHoleFirst,
               multiTwoShapes, multiOneShape, multiWithHole}

SeqsUpTo(S, n) == UNION {[1..m -> S] : m \in 0..n}

UnionInputs ==
    {[polygons |-> ps, unions |-> us] :
        ps \in SeqsUpTo(PolygonPool, MaxPolygons),
        us \in SeqsUpTo(ResultPool, MaxPolygons - 1)}

InitUnion ==
    /\ input \in {s \in UnionInputs : Len(s.unions) = Max2(0, Len(s.polygons) - 1)}
    /\ options \in [minSize : {1}, maxK : {2}, minK : {2}, shape : {"squares"}]
    /\ pc = "union"
    /\ regions = <<>>
    /\ squares = <<>>
    /\ squareSet = {}
    /\ mergedKeys = {}
    /\ rects = <<>>
    /\ circles = <<>>
    /\ passes = 0
    /\ iteration = 0
    /\ yielded = <<>>

\* unionPolygons(polygonList), lines 398-425
UnionCall ==
    /\ pc = "union"
    /\ regions' = unionPolygons(input.polygons, input.unions)
    /\ pc' = "unioned"
    /\ UNCHANGED <<input, options, squares, squareSet, mergedKeys, rects, circles,
                   passes, iteration, yielded>>

\* getUnionArea(polygonList), lines 442-446
AreaCall ==
    /\ pc = "unioned"
    /\ yielded' = <<getUnionArea(input.polygons, input.unions)>>
    /\ pc' = "area"
    /\ UNCHANGED <<input, options, regions, squares, squareSet, mergedKeys, rects,
                   circles, passes, iteration>>

NextUnion == UnionCall \/ AreaCall

UnionSpec == InitUnion /\ [][NextUnion]_vars

(***************************************************************************)
(* Claims on unionPolygons and getUnionArea                                *)
(***************************************************************************)
unionCalled == pc \in {"unioned", "area"}

someNull == \E i \in 1..Len(input.unions) : input.unions[i].isNull

someNullOrEmpty ==
    \E i \in 1..Len(input.unions) :
        input.unions[i].isNull \/ input.unions[i].coords = <<>>

MultiResults == {multiTwoShapes, multiOneShape, multiWithHole}

shapesOf(result) ==
    IF result \in MultiResults THEN result.coords
    ELSE IF result.coords = <<>> THEN <<>> ELSE <<result.coords>>

ringsOf(result) ==
    LET all == Flatten(shapesOf(result))
    IN  [r \in 1..Len(all) |-> ringToPoints(all[r])]

\* C16: for two or more polygons, a union output of several top-level
\* shapes of one ring each gives one hole-less region per shape; any other
\* output gives exactly one region, its exterior the ring of largest
\* unsigned area and its holes all the other rings.
C16_Classified ==
    (unionCalled /\ Len(input.polygons) >= 2 /\ ~someNull
       /\ Last(input.unions) # emptyResult) =>
        LET shapes == shapesOf(Last(input.unions))
            rings  == ringsOf(Last(input.unions))
        IN  IF Len(shapes) > 1 /\ \A p \in 1..Len(shapes) : Len(shapes[p]) = 1
            THEN regions = [p \in 1..Len(shapes) |->
                              [exterior |-> ringToPoints(shapes[p][1]), holes |-> <<>>]]
            ELSE /\ Len(regions) = 1
                 /\ regions[1].exterior \in Range(rings)
                 /\ \A r \in Range(rings) :
                       Abs(signedArea(r)) <= Abs(signedArea(regions[1].exterior))
                 /\ Len(regions[1].holes) = Len(rings) - 1
                 /\ Range(regions[1].holes) = Range(rings) \ {regions[1].exterior}

\* C17: getUnionArea(polygons) is the sum over the regions of
\* unionPolygons(polygons) of max(0, |exterior area| - sum of |hole area|);
\* it is 0 for an empty list, the unsigned area of a single polygon in
\* either orientation (the polygons of PolygonPool are rectangles: width
\* times height), and never negative.  Areas are doubled, as signedArea is.
C17_UnionArea ==
    pc = "area" =>
        /\ yielded[1] =
              SumSeq([r \in 1..Len(regions) |->
                        Max2(0, Abs(signedArea(regions[r].exterior))
                                  - SumSeq([h \in 1..Len(regions[r].holes) |->
                                              Abs(signedArea(regions[r].holes[h]))]))])
        /\ Len(input.polygons) = 0 => yielded[1] = 0
        /\ Len(input.polygons) = 1 =>
              /\ yielded[1] = Abs(signedArea(input.polygons[1]))
              /\ yielded[1] = 2 * bbox(regions[1]).w * bbox(regions[1]).h
        /\ yielded[1] >= 0

\* A union returned with its hole listed first: 81 - 9 square units.
C17_Witness ==
    /\ pc = "area"
    /\ Len(input.polygons) = 2
    /\ input.unions[1] = polygonHoleFirst
    /\ yielded = <<2 * (81 - 9)>>

(***************************************************************************)
(* The two strategies on the same (polygons, minSize, maxK, minK): one     *)
(* generator object of runCovering with shape 'rectangles' and one with    *)
(* shape 'squares', resumed in any order.  The frame and the shape of the  *)
(* object that is not being resumed are kept in twin and twinShape.        *)
(***************************************************************************)
StrategyInputs ==
    {s \in Scenarios : s.name \in {"empty", "small", "bar", "lshape", "annulus"}}

InitStrategies ==
    /\ input \in StrategyInputs
    /\ options \in [minSize : {input.grain * m : m \in 1..MaxMinSize},
                    maxK : 1..MaxMaxK,
                    minK : 1..MaxMinK,
                    shape : {"rectangles"},
                    twin : {newFrame},
                    twinShape : {"squares"}]
    /\ pc = "start"
    /\ regions = <<>>
    /\ squares = <<>>
    /\ squareSet = {}
    /\ mergedKeys = {}
    /\ rects = <<>>
    /\ circles = <<>>
    /\ passes = 0
    /\ iteration = 0
    /\ yielded = <<>>

\* The consumer turns to the generator object of the other strategy.
SwitchStrategy ==
    /\ options' = [options EXCEPT !.twin = frame, !.shape = options.twinShape,
                                  !.twinShape = options.shape]
    /\ pc' = options.twin.pc
    /\ regions' = options.twin.regions
    /\ squares' = options.twin.squares
    /\ squareSet' = options.twin.squareSet
    /\ mergedKeys' = options.twin.mergedKeys
    /\ rects' = options.twin.rects
    /\ circles' = options.twin.circles
    /\ passes' = options.twin.passes
    /\ iteration' = options.twin.iteration
    /\ yielded' = options.twin.yielded
    /\ UNCHANGED input

NextStrategies ==
    \/ StartEmpty
    \/ StartSquares
    \/ SquaresMerge
    \/ SquaresFinal
    \/ RectsMerge
    \/ RectsFinal
    \/ Return
    \/ SwitchStrategy

StrategiesSpec == InitStrategies /\ [][NextStrategies]_vars

(***************************************************************************)
(* Claims on the two strategies                                            *)
(***************************************************************************)
\* The steps and the position of the rectangles run and of the squares run.
rectanglesSteps == IF options.shape = "rectangles" THEN yielded ELSE options.twin.yielded

squaresSteps == IF options.shape = "squares" THEN yielded ELSE options.twin.yielded

rectanglesPc == IF options.shape = "rectangles" THEN pc ELSE options.twin.pc

squaresPc == IF options.shape = "squares" THEN pc ELSE options.twin.pc

\* C18: on the same regions, minSize, maxK and minK, the steps of the
\* rectangles strategy begin with the complete sequence of steps of the
\* squares strategy, its terminal repeat included, each step the same; the
\* steps after these, and only these, are the steps of the pair merging.
C18_RectanglesBeginWithSquares ==
    regionsOf[input] # <<>> =>
        /\ \A n \in 1..Min2(Len(rectanglesSteps), Len(squaresSteps)) :
              /\ rectanglesSteps[n] = squaresSteps[n]
              /\ rectanglesSteps[n].line \notin {186, 189}
        /\ squaresPc = "done" =>
              \A n \in (Len(squaresSteps) + 1)..Len(rectanglesSteps) :
                  rectanglesSteps[n].line \in {186, 189}
        /\ (squaresPc = "done" /\ rectanglesPc = "done") =>
              Len(rectanglesSteps) > Len(squaresSteps)

\* Both runs are done; the squares run merged a block, the rectangles run
\* went on to merge a pair.
C18_Witness ==
    /\ squaresPc = "done"
    /\ rectanglesPc = "done"
    /\ \E n \in 1..Len(squaresSteps) : squaresSteps[n].line = 154
    /\ \E n \in 1..Len(rectanglesSteps) : rectanglesSteps[n].line = 186

(***************************************************************************)
(* main.ts: the Run control of an animated run.  options holds the module  *)
(* state of main.ts (state.coveringRunning, state.coveringPaused,          *)
(* coveringTimeoutId, coveringStep), the checkbox 'Run without animation'  *)
(* (instantRun) and the number of timers that are pending; rects and       *)
(* iteration hold state.rectangles and state.coveringIteration; input      *)
(* holds the steps the generator gen yields, yielded the values gen.next() *)
(* has returned, pc whether gen is done; passes counts the presses of      *)
(* Run/R.  Each action is one event handler, run to its end.               *)
(***************************************************************************)
\* the presses of Run/R in one behaviour
MaxPresses == 4

cell(x, y, w, h) == [x |-> x, y |-> y, w |-> w, h |-> h]

\* What runCovering yields: on no regions, on a 2x2 grid merged as squares,
\* and on a 2x1 grid merged as rectangles.
GenRuns ==
    { << Step(<<>>, <<>>, 0, 340) >>,
      << Step(<<cell(0, 0, 1, 1), cell(0, 1, 1, 1), cell(1, 0, 1, 1), cell(1, 1, 1, 1)>>,
              <<>>, 0, 112),
         Step(<<cell(0, 0, 2, 2)>>, <<>>, 1, 154),
         Step(<<cell(0, 0, 2, 2)>>, <<>>, 1, 157) >>,
      << Step(<<cell(0, 0, 1, 1), cell(1, 0, 1, 1)>>, <<>>, 0, 112),
         Step(<<cell(0, 0, 1, 1), cell(1, 0, 1, 1)>>, <<>>, 0, 157),
         Step(<<cell(0, 0, 2, 1)>>, <<>>, 1, 186),
         Step(<<cell(0, 0, 2, 1)>>, <<>>, 1, 189) >> }

InitUI ==
    /\ input \in [steps : GenRuns]
    /\ options = [coveringRunning |-> FALSE, coveringPaused |-> FALSE,
                  coveringTimeoutId |-> "null", coveringStep |-> "null",
                  instantRun |-> FALSE, timers |-> 0]
    /\ pc = "idle"
    /\ regions = <<>>
    /\ squares = <<>>
    /\ squareSet = {}
    /\ mergedKeys = {}
    /\ rects = <<>>
    /\ circles = <<>>
    /\ passes = 0
    /\ iteration = 0
    /\ yielded = <<>>

\* finish(), lines 519-529
finish(ui) ==
    [ui EXCEPT !.coveringRunning = FALSE, !.coveringPaused = FALSE,
               !.coveringTimeoutId = "null", !.coveringStep = "null"]

\* step(), lines 555-569, called with the module state ui, the values ys that
\* gen has returned, and the rectangles rs and the iteration it on display.
step(ui, ys, rs, it) ==
    IF ui.coveringPaused
    THEN /\ options' = ui
         /\ yielded' = ys
         /\ rects' = rs
         /\ iteration' = it
         /\ pc' = pc
    ELSE IF Len(ys) = Len(input.steps)
    THEN /\ options' = finish(ui)
         /\ yielded' = ys
         /\ rects' = rs
         /\ iteration' = it
         /\ pc' = "done"
    ELSE \E value \in {input.steps[Len(ys) + 1]} :
            /\ yielded' = Append(ys, value)
            /\ pc' = "suspended"
            /\ IF ~ui.coveringRunning
               THEN /\ options' = finish(ui)
                    /\ rects' = rs
                    /\ iteration' = it
               ELSE /\ rects' = value.rectangles
                    /\ iteration' = value.iteration
                    /\ options' = [ui EXCEPT !.coveringTimeoutId = "live",
                                             !.timers = ui.timers + 1]

\* Run/R while no run is on: startCovering, lines 495-571, animated path.
StartCovering ==
    /\ passes < MaxPresses
    /\ ~options.coveringRunning
    /\ ~options.instantRun
    /\ passes' = passes + 1
    /\ step([options EXCEPT !.coveringRunning = TRUE, !.coveringPaused = FALSE,
                            !.coveringTimeoutId = "null", !.coveringStep = "step"],
            <<>>, <<>>, 0)
    /\ UNCHANGED <<input, regions, squares, squareSet, mergedKeys, circles>>

\* Run/R while a run is on and not paused: pauseCovering, lines 575-584.
pauseCovering ==
    /\ passes < MaxPresses
    /\ options.coveringRunning
    /\ ~options.coveringPaused
    /\ passes' = passes + 1
    /\ options' =
          IF options.instantRun THEN options
          ELSE [options EXCEPT
                  !.timers = IF options.coveringTimeoutId = "live"
                             THEN options.timers - 1 ELSE options.timers,
                  !.coveringTimeoutId = "null",
                  !.coveringPaused = TRUE]
    /\ UNCHANGED <<input, pc, regions, squares, squareSet, mergedKeys, rects, circles,
                   iteration, yielded>>

\* Run/R while a run is paused: resumeCovering, lines 586-591.
resumeCovering ==
    /\ passes < MaxPresses
    /\ options.coveringRunning
    /\ options.coveringPaused
    /\ passes' = passes + 1
    /\ IF options.coveringStep = "step"
       THEN step([options EXCEPT !.coveringPaused = FALSE], yielded, rects, iteration)
       ELSE /\ options' = [options EXCEPT !.coveringPaused = FALSE]
            /\ UNCHANGED <<pc, rects, iteration, yielded>>
    /\ UNCHANGED <<input, regions, squares, squareSet, mergedKeys, circles>>

\* A timer set by line 567 fires: step().
TimerFires ==
    /\ options.timers > 0
    /\ step([options EXCEPT !.timers = options.timers - 1,
                            !.coveringTimeoutId =
                                IF options.coveringTimeoutId = "live" THEN "stale"
                                ELSE options.coveringTimeoutId],
            yielded, rects, iteration)
    /\ UNCHANGED <<input, regions, squares, squareSet, mergedKeys, circles, passes>>

\* The user ticks or unticks 'Run without animation' (the checkbox is never
\* disabled; its change handler saves the preference, line 981).
ToggleInstantRun ==
    /\ options' = [options EXCEPT !.instantRun = ~options.instantRun]
    /\ UNCHANGED <<input, pc, regions, squares, squareSet, mergedKeys, rects, circles,
                   passes, iteration, yielded>>

NextUI ==
    \/ StartCovering
    \/ pauseCovering
    \/ resumeCovering
    \/ TimerFires
    \/ ToggleInstantRun

UISpec == InitUI /\ [][NextUI]_vars

(***************************************************************************)
(* Claims on the Run control                                               *)
(***************************************************************************)
pressed == passes' = passes + 1

\* C19: during an animated run Run/R alternates between pause and resume
\* (the run being over after a resume excepted); while the run is paused no
\* value is taken from the generator and the rectangles and iteration on
\* display stay; every value taken is the next one of the generator's
\* sequence and is put on display; a run that is on and not paused has its
\* next step scheduled, and it ends only when the generator is done.
C19_PauseResumeAlternate ==
    [][/\ (pressed /\ options.coveringRunning /\ options'.coveringRunning) =>
              options'.coveringPaused = ~options.coveringPaused
       /\ (options.coveringRunning /\ options.coveringPaused
             /\ options'.coveringRunning /\ options'.coveringPaused) =>
              /\ yielded' = yielded
              /\ rects' = rects
              /\ iteration' = iteration
       /\ (pressed /\ options.coveringRunning /\ ~options.coveringPaused) =>
              yielded' = yielded
       /\ yielded' # yielded =>
              /\ yielded' = Append(IF options.coveringRunning THEN yielded ELSE <<>>,
                                   input.steps[Len(yielded')])
              /\ rects' = Last(yielded').rectangles
              /\ iteration' = Last(yielded').iteration
       /\ (options'.coveringRunning /\ ~options'.coveringPaused) =>
              options'.timers = 1
       /\ (options.coveringRunning /\ ~options'.coveringRunning) => pc' = "done"
      ]_vars

(***************************************************************************)
(* Claims on the choice of the multiplier                                  *)
(***************************************************************************)
\* The ladder values k for which some square of the live list anchors a
\* complete k x k block of squares of its size.
blockKs ==
    {k \in Range(kHalvingRange(capK, capMinK)) :
        \E i \in 1..Len(squares) :
            hasBlock(squareSet, squares[i].x, squares[i].y, squares[i].size, k)}

\* C20: every merge of a squares run uses the largest value k of the ladder
\* for which some square of the live list anchors a complete k x k block of
\* squares of its size at that moment: k x k squares go, and the square
\* that comes is k times their size.
C20_LargestMultiplier ==
    [][(pc = "squares" /\ yielded' # yielded /\ Last(yielded').line = 154) =>
          \E k \in blockKs :
              /\ \A j \in blockKs : j <= k
              /\ Cardinality(squareSet \ squareSet') = k * k
              /\ \A gone \in squareSet \ squareSet' :
                    Last(squares').size = k * gone[3]
      ]_vars

\* The first merge of a run whose ladder is 4, 2 has made a square of four
\* cells a side, where blocks of 2 x 2 cells were there as well.
C20_Witness ==
    /\ pc = "squares"
    /\ capK = 4
    /\ capMinK = 2
    /\ Len(yielded) = 2
    /\ yielded[2].line = 154
    /\ Last(squares).size = 4 * options.minSize

(***************************************************************************)
(* findMerge on its own: called on a list of squares (cells of side 1 in   *)
(* scan order, one of them left out or none, and squares of side 2 beside  *)
(* them, before or after the cells in the list), the set of their keys, a  *)
(* ladder and a set of excluded keys.  yielded holds what it returned.     *)
(***************************************************************************)
\* the cells lie on a grid of at most MaxGrid x MaxGrid
MaxGrid == 4

\* the squares of side 2 lie on a grid of at most MaxBig x MaxBig
MaxBig == 2

unitGrid(w, h) == [n \in 1..(w * h) |-> [x |-> (n - 1) \div h, y |-> (n - 1) % h, size |-> 1]]

bigGrid(a, b) ==
    [n \in 1..(a * b) |->
        [x |-> MaxGrid + 1 + 2 * ((n - 1) \div b), y |-> 2 * ((n - 1) % b), size |-> 2]]

without(list, d) == [n \in 1..(Len(list) - 1) |-> IF n < d THEN list[n] ELSE list[n + 1]]

SquareLists ==
    LET cells == {unitGrid(w, h) : w \in 0..MaxGrid, h \in 0..MaxGrid}
        holed == cells \cup {without(c, d) : c \in {g \in cells : Len(g) >= 2}, d \in 1..2}
        bigs  == {bigGrid(a, b) : a \in 0..MaxBig, b \in 0..MaxBig}
    IN  {c \o g : c \in holed, g \in bigs} \cup {g \o c : c \in holed, g \in bigs}

InitFindMerge ==
    /\ input \in {s \in Scenarios : s.name = "empty"}
    /\ options \in [minSize : {1}, maxK : 2..MaxMaxK, minK : 2..MaxMinK, shape : {"squares"}]
    /\ pc = "findMerge"
    /\ regions = <<>>
    /\ squares \in SquareLists
    /\ squareSet = {squareKey(squares[i]) : i \in 1..Len(squares)}
    /\ mergedKeys \in {{}} \cup (IF Len(squares) = 0 THEN {}
                                 ELSE {{squareKey(squares[1])}, {squareKey(Last(squares))}})
    /\ rects = <<>>
    /\ circles = <<>>
    /\ passes = 0
    /\ iteration = 0
    /\ yielded = <<>>

\* findMerge(squareSet, squareList, maxK, minK, excludeKeys), lines 279-304
FindMergeCall ==
    /\ pc = "findMerge"
    /\ yielded' = findMerge(squareSet, squares, options.maxK, options.minK, mergedKeys)
    /\ pc' = "found"
    /\ UNCHANGED <<input, options, regions, squares, squareSet, mergedKeys, rects,
                   circles, passes, iteration>>

NextFindMerge == FindMergeCall

FindMergeSpec == InitFindMerge /\ [][NextFindMerge]_vars

(***************************************************************************)
(* Claims on findMerge                                                     *)
(***************************************************************************)
\* The places in the list of the squares, not excluded, that anchor a
\* complete k x k block.
anchorsOf(k) ==
    {i \in 1..Len(squares) :
        /\ squareKey(squares[i]) \notin mergedKeys
        /\ hasBlock(squareSet, squares[i].x, squares[i].y, squares[i].size, k)}

\* C21: findMerge returns null exactly when no square of the list that is
\* not excluded anchors a complete block for any value of the ladder;
\* otherwise its result has the largest such k, among the anchors for this
\* k the smallest size, and among those the anchor earliest in the list.
C21_FindMergeOrder ==
    pc = "found" =>
        LET ks == {k \in Range(kHalvingRange(options.maxK, options.minK)) :
                      anchorsOf(k) # {}}
        IN  IF ks = {} THEN yielded = <<>>
            ELSE /\ Len(yielded) = 1
                 /\ yielded[1].k \in ks
                 /\ \A k \in ks : k <= yielded[1].k
                 /\ \A i \in anchorsOf(yielded[1].k) : yielded[1].size <= squares[i].size
                 /\ \E i \in anchorsOf(yielded[1].k) :
                       /\ squares[i] = [x |-> yielded[1].x, y |-> yielded[1].y,
                                        size |-> yielded[1].size]
                       /\ \A j \in anchorsOf(yielded[1].k) :
                             squares[j].size = yielded[1].size => i <= j

\* The first square of the list has side 2 and anchors a block, and the
\* result is a block of cells of side 1 that come later in the list.
C21_Witness ==
    /\ pc = "found"
    /\ Len(yielded) = 1
    /\ yielded[1].size = 1
    /\ squares[1].size = 2
    /\ 1 \in anchorsOf(yielded[1].k)

(***************************************************************************)
(* Claims on the state of a squares run                                    *)
(***************************************************************************)
squaresOver == pc \in {"squares_final", "rects", "rects_final", "done"}

\* C22: a squares run stops merging only at a fixpoint: once its terminal
\* step is yielded, no square of the live set anchors a complete k x k
\* block of squares of its size for any k of the ladder, the squares whose
\* keys were excluded from the search included.
C22_StopsAtFixpoint ==
    (rectRun /\ squaresOver /\ regions # <<>>) =>
        \A k \in Range(kHalvingRange(capK, capMinK)) :
            \A key \in squareSet : ~hasBlock(squareSet, key[1], key[2], key[3], k)

\* A run that merged twice and stopped with more than one square left.
C22_Witness ==
    /\ rectRun
    /\ pc = "squares_final"
    /\ iteration >= 2
    /\ Len(squares) >= 2
    /\ mergedKeys # {}

mergeStep == pc = "squares" /\ yielded' # yielded /\ Last(yielded').line = 154

keysOf(list) == {squareKey(list[i]) : i \in 1..Len(list)}

\* C23: each merge of a squares run has an anchor (x, y), a size s and a k
\* such that exactly the k * k squares (x + di * s, y + dj * s, s) go, all of
\* them squares of the step before; exactly one square (x, y, s * k) comes,
\* last in the list; the other squares stay, in their order; and after the
\* merge the list holds the keys of the set, each once.
C23_MergeFrame ==
    [][mergeStep =>
          \E i \in 1..Len(squares), k \in Range(kHalvingRange(capK, capMinK)) :
              LET s    == squares[i].size
                  gone == {<<squares[i].x + di * s, squares[i].y + dj * s, s>> :
                              di \in 0..(k - 1), dj \in 0..(k - 1)}
                  made == [x |-> squares[i].x, y |-> squares[i].y, size |-> s * k]
              IN  /\ Cardinality(gone) = k * k
                  /\ gone \subseteq squareSet
                  /\ \A key \in gone :
                        \E r \in Range(Last(yielded).rectangles) :
                            <<r.x, r.y, r.w>> = key /\ r.h = r.w
                  /\ squareSet' = (squareSet \ gone) \cup {squareKey(made)}
                  /\ squareKey(made) \notin squareSet
                  /\ squares' = Append(SelectSeq(squares,
                                                 LAMBDA q : squareKey(q) \notin gone),
                                       made)
                  /\ keysOf(squares') = squareSet'
                  /\ Cardinality(squareSet') = Len(squares')
      ]_vars

\* A merge of 2 x 2 squares has left squares before the new one in the list.
C23_Witness ==
    /\ pc = "squares"
    /\ started
    /\ Last(yielded).line = 154
    /\ Len(squares) >= 3
    /\ Last(squares).size = 2 * options.minSize
    /\ Len(yielded[Len(yielded) - 1].rectangles) = Len(squares) + 3

\* The steps of the squares phase of the run, and the keys of a step.
squaresPhase == {n \in 1..Len(yielded) : yielded[n].line \in {112, 154, 157}}

stepKeys(n) == {<<r.x, r.y, r.w>> : r \in Range(yielded[n].rectangles)}

\* C24: in a squares run a square consumed by a merge is in no later step;
\* the merged keys and the live set are disjoint; and the square a merge
\* makes has a key that no earlier step held.
C24_ConsumedNeverReturns ==
    rectRun =>
        /\ mergedKeys \cap squareSet = {}
        /\ \A n \in squaresPhase, m \in squaresPhase :
              (n < m /\ n + 1 \in squaresPhase) =>
                  (stepKeys(n) \ stepKeys(n + 1)) \cap stepKeys(m) = {}
        /\ \A n \in squaresPhase, m \in squaresPhase :
              (n < m /\ yielded[m].line = 154) =>
                  LET made == Last(yielded[m].rectangles)
                  IN  <<made.x, made.y, made.w>> \notin stepKeys(n)
        /\ pc \in {"squares", "squares_final"} =>
              \A n \in squaresPhase : n < Len(yielded) =>
                  (stepKeys(n) \ stepKeys(n + 1)) \subseteq mergedKeys

\* Two merges have been made, and squares are still live.
C24_Witness ==
    /\ rectRun
    /\ pc = "squares"
    /\ Cardinality({n \in squaresPhase : yielded[n].line = 154}) = 2
    /\ Cardinality(mergedKeys) >= 8
    /\ squareSet # {}

(***************************************************************************)
(* Claims on the second phase of a rectangles run                          *)
(***************************************************************************)
\* a and b share a full edge: same y and height and adjacent in x, or same
\* x and width and adjacent in y.
sharesFullEdge(a, b) ==
    \/ a.y = b.y /\ a.h = b.h /\ (a.x + a.w = b.x \/ b.x + b.w = a.x)
    \/ a.x = b.x /\ a.w = b.w /\ (a.y + a.h = b.y \/ b.y + b.h = a.y)

\* The union of a and b, the rectangle that bounds both.
unionRect(a, b) ==
    [x |-> Min2(a.x, b.x), y |-> Min2(a.y, b.y),
     w |-> Max2(a.x + a.w, b.x + b.w) - Min2(a.x, b.x),
     h |-> Max2(a.y + a.h, b.y + b.h) - Min2(a.y, b.y)]

qualifies(a, b) ==
    /\ sharesFullEdge(a, b)
    /\ \E r \in 1..Len(regions) :
          rectInsideRegion(unionRect(a, b).x, unionRect(a, b).y,
                           unionRect(a, b).w, unionRect(a, b).h, regions[r])

pairStep == yielded' # yielded /\ Last(yielded').line = 186

\* C25: every step of the second phase of a rectangles run replaces one
\* pair of rectangles of the step before, the first pair in index order
\* i < j that shares a full edge and whose union is inside some region, by
\* their union: the other rectangles stay as they are, in their order, and
\* the union is appended last.
C25_FirstPairMerged ==
    [][pairStep =>
          LET before == Last(yielded).rectangles
              after  == Last(yielded').rectangles
          IN  \E i \in 1..Len(before), j \in 1..Len(before) :
                 /\ i < j
                 /\ qualifies(before[i], before[j])
                 /\ \A a \in 1..Len(before), b \in 1..Len(before) :
                       (a < b /\ (a < i \/ (a = i /\ b < j))) =>
                           ~qualifies(before[a], before[b])
                 /\ after = Append(SelectSeq([n \in 1..Len(before) |->
                                                 IF n \in {i, j} THEN <<>>
                                                 ELSE before[n]],
                                             LAMBDA r : r # <<>>),
                                   unionRect(before[i], before[j]))
      ]_vars

\* A pair merge, not the first of its run, has left three or more rectangles.
C25_Witness ==
    /\ pc = "rects"
    /\ Len(yielded) >= 2
    /\ Last(yielded).line = 186
    /\ yielded[Len(yielded) - 1].line = 186
    /\ Len(rects) >= 3

\* C26: a rectangles run stops only when no pair that can be merged is
\* left: the rectangles of its terminal step hold no two that share a full
\* edge and whose union is inside some region.
C26_NoPairLeft ==
    (options.shape = "rectangles" /\ pc \in {"rects_final", "done"} /\ started
       /\ Last(yielded).line = 189) =>
        LET final == Last(yielded).rectangles
        IN  \A i \in 1..Len(final), j \in 1..Len(final) :
               i # j => ~qualifies(final[i], final[j])

\* A run that merged pairs and ended with two or more rectangles.
C26_Witness ==
    /\ options.shape = "rectangles"
    /\ pc = "done"
    /\ Len(yielded) >= 2
    /\ Last(yielded).line = 189
    /\ yielded[Len(yielded) - 1].line = 186
    /\ Len(Last(yielded).rectangles) >= 2

(***************************************************************************)
(* Claims on a circles run                                                 *)
(***************************************************************************)
circlesRun == options.shape = "circles"

\* No two circles of the list overlap: the distance between their centres is
\* at least the sum of their radii (squared on both sides).
apart(cs) ==
    \A i \in 1..Len(cs), j \in 1..Len(cs) :
        i # j =>
            (cs[i].cx - cs[j].cx) * (cs[i].cx - cs[j].cx)
              + (cs[i].cy - cs[j].cy) * (cs[i].cy - cs[j].cy)
                >= (cs[i].r + cs[j].r) * (cs[i].r + cs[j].r)

\* C27: in every step of a circles run no two circles overlap, whatever
\* their radii and regions.
C27_CirclesApart ==
    circlesRun =>
        /\ apart(circles)
        /\ \A n \in 1..Len(yielded) : apart(yielded[n].circles)

\* A step holds circles of two radii.
C27_Witness ==
    /\ circlesRun
    /\ started
    /\ \E i \in 1..Len(Last(yielded).circles), j \in 1..Len(Last(yielded).circles) :
          Last(yielded).circles[i].r # Last(yielded).circles[j].r

isPrefix(s, t) == Len(s) <= Len(t) /\ SubSeq(t, 1, Len(s)) = s

passSteps == {n \in 1..Len(yielded) : yielded[n].line = 248}

\* The radius, in half units, of the circles the step at n added.
addedRadii(n) ==
    {yielded[n].circles[i].r :
        i \in (Len(yielded[n - 1].circles) + 1)..Len(yielded[n].circles)}

\* C28: in a circles run the circle list of each step extends that of the
\* step before; the first step is empty; each step of a pass adds at least
\* one circle, all of one diameter of the ladder, the diameters falling from
\* step to step; and when the terminal step is yielded it repeats the step
\* before it, and the steps of the passes are as many as the diameters of
\* the ladder that have a circle.
C28_CirclesOnlyAdded ==
    (circlesRun /\ started /\ yielded[1].line = 226) =>
        /\ yielded[1].circles = <<>>
        /\ \A n \in 2..Len(yielded) : isPrefix(yielded[n - 1].circles, yielded[n].circles)
        /\ \A n \in passSteps :
              /\ Cardinality(addedRadii(n)) = 1
              /\ addedRadii(n) \subseteq Range(diameterHalvingRange(capK, capMinK))
              /\ \A m \in passSteps : m < n =>
                    \A a \in addedRadii(m), b \in addedRadii(n) : a > b
        /\ Last(yielded).line = 252 =>
              /\ Len(yielded) >= 2
              /\ Last(yielded).circles = yielded[Len(yielded) - 1].circles
              /\ passSteps = 2..(Len(yielded) - 1)
              /\ Cardinality(passSteps) =
                    Cardinality({d \in Range(diameterHalvingRange(capK, capMinK)) :
                                    \E i \in 1..Len(circles) : circles[i].r = d})

\* A run is done whose first pass added nothing and whose second pass did.
C28_Witness ==
    /\ circlesRun
    /\ pc = "done"
    /\ Len(diameterHalvingRange(capK, capMinK)) = 2
    /\ Len(yielded) = 3
    /\ yielded[2].line = 248
    /\ yielded[2].circles[1].r = diameterHalvingRange(capK, capMinK)[2]

(***************************************************************************)
(* main.ts: the run loop with both ways of running, Clear all and the      *)
(* drawing of a polygon.  options holds, beside the fields of the Run      *)
(* control, coveringRafId, the number of animation frames that are pending *)
(* (rafs) and whether state.polygons holds a polygon (polygons).           *)
(***************************************************************************)
\* main.ts, line 493
INSTANT_STEPS_PER_FRAME == 100

\* A run of more steps than one animation frame takes.
longRun ==
    [n \in 1..(INSTANT_STEPS_PER_FRAME + 2) |->
        Step(<<cell(0, 0, 1, 1)>>, <<>>, Min2(n - 1, INSTANT_STEPS_PER_FRAME),
             IF n = 1 THEN 112
             ELSE IF n = INSTANT_STEPS_PER_FRAME + 2 THEN 157 ELSE 154)]

InitRunLoop ==
    /\ input \in [steps : GenRuns \cup {longRun}]
    /\ options = [coveringRunning |-> FALSE, coveringPaused |-> FALSE,
                  coveringTimeoutId |-> "null", coveringStep |-> "null",
                  instantRun |-> FALSE, timers |-> 0,
                  coveringRafId |-> "null", rafs |-> 0, polygons |-> TRUE]
    /\ pc = "idle"
    /\ regions = <<>>
    /\ squares = <<>>
    /\ squareSet = {}
    /\ mergedKeys = {}
    /\ rects = <<>>
    /\ circles = <<>>
    /\ passes = 0
    /\ iteration = 0
    /\ yielded = <<>>

\* Run/R while no run is on, a polygon is there (line 500) and the checkbox
\* is not ticked: startCovering, animated path.
StartAnimated ==
    /\ options.polygons
    /\ StartCovering

\* Run/R while no run is on, a polygon is there and the checkbox is ticked:
\* startCovering, lines 495-553, the first animation frame is requested.
StartInstant ==
    /\ passes < MaxPresses
    /\ ~options.coveringRunning
    /\ options.instantRun
    /\ options.polygons
    /\ passes' = passes + 1
    /\ options' = [options EXCEPT !.coveringRunning = TRUE, !.coveringPaused = FALSE,
                                  !.coveringTimeoutId = "null", !.coveringStep = "null",
                                  !.coveringRafId = "live", !.rafs = options.rafs + 1]
    /\ rects' = <<>>
    /\ iteration' = 0
    /\ yielded' = <<>>
    /\ pc' = "suspended"
    /\ UNCHANGED <<input, regions, squares, squareSet, mergedKeys, circles>>

\* finish(), lines 519-529, with coveringRafId
finishRun(ui) == [finish(ui) EXCEPT !.coveringRafId = "null"]

\* An animation frame requested by line 548 or 551 comes: runInstant, lines
\* 532-549.  The loop takes up to INSTANT_STEPS_PER_FRAME results of
\* gen.next(); done among them ends the run, otherwise a frame is requested.
AnimationFrame ==
    /\ options.rafs > 0
    /\ \E ui \in {[options EXCEPT !.rafs = options.rafs - 1,
                                  !.coveringRafId =
                                      IF options.coveringRafId = "live" THEN "stale"
                                      ELSE options.coveringRafId]} :
          IF ~ui.coveringRunning
          THEN /\ options' = finishRun(ui)
               /\ UNCHANGED <<pc, rects, iteration, yielded>>
          ELSE \E left \in {Len(input.steps) - Len(yielded)} :
                 \E take \in {Min2(INSTANT_STEPS_PER_FRAME, left)} :
                   /\ yielded' = yielded \o SubSeq(input.steps, Len(yielded) + 1,
                                                   Len(yielded) + take)
                   /\ rects' = IF take = 0 THEN rects
                               ELSE input.steps[Len(yielded) + take].rectangles
                   /\ iteration' = IF take = 0 THEN iteration
                                   ELSE input.steps[Len(yielded) + take].iteration
                   /\ IF left < INSTANT_STEPS_PER_FRAME
                      THEN /\ options' = finishRun(ui)
                           /\ pc' = "done"
                      ELSE /\ options' = [ui EXCEPT !.coveringRafId = "live",
                                                    !.rafs = ui.rafs + 1]
                           /\ pc' = "suspended"
    /\ UNCHANGED <<input, regions, squares, squareSet, mergedKeys, circles, passes>>

\* Faulty variant of ClearAll: the timeout is not cleared.
ClearAllKeepingTimer ==
    /\ options' = [options EXCEPT
                     !.rafs = IF options.coveringRafId = "live"
                              THEN options.rafs - 1 ELSE options.rafs,
                     !.coveringRafId = "null",
                     !.coveringTimeoutId = "null",
                     !.coveringStep = "null",
                     !.polygons = FALSE,
                     !.coveringRunning = FALSE,
                     !.coveringPaused = FALSE]
    /\ rects' = <<>>
    /\ iteration' = 0
    /\ UNCHANGED <<input, pc, regions, squares, squareSet, mergedKeys, circles, passes,
                   yielded>>

\* Clear all: clearAll, lines 351-376.
ClearAll ==
    /\ options' = [options EXCEPT
                     !.timers = IF options.coveringTimeoutId = "live"
                                THEN options.timers - 1 ELSE options.timers,
                     !.coveringTimeoutId = "null",
                     !.rafs = IF options.coveringRafId = "live"
                              THEN options.rafs - 1 ELSE options.rafs,
                     !.coveringRafId = "null",
                     !.coveringStep = "null",
                     !.polygons = FALSE,
                     !.coveringRunning = FALSE,
                     !.coveringPaused = FALSE]
    /\ rects' = <<>>
    /\ iteration' = 0
    /\ UNCHANGED <<input, pc, regions, squares, squareSet, mergedKeys, circles, passes,
                   yielded>>

\* The user draws and closes a polygon; the canvas takes no point while a
\* run is on (line 611).
AddPolygon ==
    /\ ~options.coveringRunning
    /\ ~options.polygons
    /\ options' = [options EXCEPT !.polygons = TRUE]
    /\ UNCHANGED <<input, pc, regions, squares, squareSet, mergedKeys, rects, circles,
                   passes, iteration, yielded>>

NextRunLoop ==
    \/ StartAnimated
    \/ StartInstant
    \/ pauseCovering
    \/ resumeCovering
    \/ TimerFires
    \/ AnimationFrame
    \/ ToggleInstantRun
    \/ ClearAll
    \/ AddPolygon

RunLoopSpec == InitRunLoop /\ [][NextRunLoop]_vars

(***************************************************************************)
(* Claims on the run loop                                                  *)
(***************************************************************************)
\* C29: under any interleaving of Run/Pause/Resume, Clear all, the ticking
\* of the checkbox and the callbacks: coveringPaused implies
\* coveringRunning; at most one callback (timeout or animation frame) is
\* pending; and when no run is on (after Clear all, or after the run's end)
\* no callback is pending and no result of a generator is taken or put on
\* display until Run starts a new run.
C29_RunLoopConsistent ==
    [][/\ options'.coveringPaused => options'.coveringRunning
       /\ options'.timers + options'.rafs <= 1
       /\ ~options'.coveringRunning => options'.timers + options'.rafs = 0
       /\ (~options.coveringRunning /\ ~pressed) =>
              /\ yielded' = yielded
              /\ rects' \in {rects, <<>>}
              /\ iteration' \in {iteration, 0}
              /\ ~options'.coveringRunning
      ]_vars

\* Clear all has cancelled a paused animated run that had taken a step of a
\* long run, a polygon has been drawn again, and nothing is pending.
C29_Witness ==
    /\ ~options.coveringRunning
    /\ options.polygons
    /\ rects = <<>>
    /\ Len(yielded) = 2
    /\ Len(input.steps) > INSTANT_STEPS_PER_FRAME
    /\ pc = "suspended"

(***************************************************************************)
(* main.ts: the editing of polygons with undo and redo.  options holds     *)
(* the fields of state that the editing handlers read and write.  A point  *)
(* is one of a few numbered places of the canvas; currentPolygon is a      *)
(* record whose isNull tells null from the empty array;                    *)
(* selectedPolygonIndex is the index plus one, 0 standing for null.        *)
(***************************************************************************)
MaxPoint == 2
MaxUndo == 4
MaxVertices == 3
MaxShapes == 1

Points == 1..MaxPoint

nullPolygon == [isNull |-> TRUE, points |-> <<>>]

arrayOf(points) == [isNull |-> FALSE, points |-> points]

\* Array.prototype.splice(index, 0, item), index counted from 0: an index
\* beyond the end inserts at the end.
spliceInsert(list, index, item) ==
    LET at == Min2(index, Len(list))
    IN  SubSeq(list, 1, at) \o <<item>> \o SubSeq(list, at + 1, Len(list))

\* Array.prototype.splice(index, 1), index counted from 0: an index beyond
\* the end removes nothing.
spliceRemove(list, index) ==
    IF index >= Len(list) THEN list
    ELSE SubSeq(list, 1, index) \o SubSeq(list, index + 2, Len(list))

InitEdit ==
    /\ options = [polygons |-> <<>>, currentPolygon |-> nullPolygon,
                  drawMode |-> FALSE, editMode |-> FALSE, coveringRunning |-> FALSE,
                  selectedPolygonIndex |-> 0, undoStack |-> <<>>, redoStack |-> <<>>]
    /\ input = [steps |-> <<>>]
    /\ pc = "editing"
    /\ regions = <<>>
    /\ squares = <<>>
    /\ squareSet = {}
    /\ mergedKeys = {}
    /\ rects = <<>>
    /\ circles = <<>>
    /\ passes = 0
    /\ iteration = 0
    /\ yielded = <<>>

editorOnly == UNCHANGED <<input, pc, regions, squares, squareSet, mergedKeys, rects,
                          circles, passes, iteration, yielded>>

\* Draw button or D: lines 705 and 765.
ToggleDrawMode ==
    /\ options' = [options EXCEPT !.drawMode = ~options.drawMode]
    /\ editorOnly

\* A click in draw mode away from the edges of the current polygon (line
\* 615): addPoint, lines 304-317.
addPoint ==
    /\ options.drawMode
    /\ ~options.coveringRunning
    /\ Len(options.undoStack) < MaxUndo
    /\ Len(options.currentPolygon.points) < MaxVertices
    /\ \E p \in Points :
          options' = [options EXCEPT
                        !.currentPolygon = arrayOf(Append(options.currentPolygon.points, p)),
                        !.undoStack = Append(options.undoStack,
                                             [type |-> "add_point", point |-> p]),
                        !.redoStack = <<>>]
    /\ editorOnly

\* Close button, double click, or a click near an edge of the current
\* polygon: closePolygon, lines 319-335.
closePolygon ==
    /\ Len(options.currentPolygon.points) >= 3
    /\ Len(options.polygons) < MaxShapes
    /\ IF options.editMode
       THEN options' = [options EXCEPT
                          !.polygons = Append(options.polygons,
                                              options.currentPolygon.points),
                          !.currentPolygon = nullPolygon,
                          !.editMode = FALSE]
       ELSE /\ Len(options.undoStack) < MaxUndo
            /\ options' = [options EXCEPT
                             !.undoStack = Append(options.undoStack,
                                                  [type |-> "close_polygon"]),
                             !.redoStack = <<>>,
                             !.polygons = Append(options.polygons,
                                                 options.currentPolygon.points),
                             !.currentPolygon = nullPolygon]
    /\ editorOnly

\* A click outside draw mode, lines 618-623: hitTestPolygons gives the
\* polygon under the click, or null.
SelectPolygon ==
    /\ ~options.drawMode
    /\ ~options.coveringRunning
    /\ \E i \in 0..Len(options.polygons) :
          options' = [options EXCEPT !.selectedPolygonIndex = i]
    /\ editorOnly

\* Delete button: deleteSelectedPolygon, lines 378-389.  With an index that
\* polygons no longer has, line 382 throws on the spreading of undefined
\* and nothing is changed.
deleteSelectedPolygon ==
    /\ ~options.coveringRunning
    /\ options.selectedPolygonIndex # 0
    /\ options.selectedPolygonIndex <= Len(options.polygons)
    /\ Len(options.undoStack) < MaxUndo
    /\ \E index \in {options.selectedPolygonIndex - 1} :
          options' = [options EXCEPT
                        !.undoStack = Append(options.undoStack,
                                             [type |-> "delete_polygon", index |-> index,
                                              points |-> options.polygons[index + 1]]),
                        !.redoStack = <<>>,
                        !.polygons = spliceRemove(options.polygons, index),
                        !.selectedPolygonIndex = 0]
    /\ editorOnly

\* Edit button or double click: startEditPolygon, lines 391-402.  With an
\* index that polygons no longer has, line 394 throws on undefined.map and
\* nothing is changed.
startEditPolygon ==
    /\ ~options.coveringRunning
    /\ options.selectedPolygonIndex # 0
    /\ options.selectedPolygonIndex <= Len(options.polygons)
    /\ \E index \in {options.selectedPolygonIndex - 1} :
          options' = [options EXCEPT
                        !.currentPolygon = arrayOf(options.polygons[index + 1]),
                        !.polygons = spliceRemove(options.polygons, index),
                        !.selectedPolygonIndex = 0,
                        !.editMode = TRUE,
                        !.drawMode = TRUE]
    /\ editorOnly

\* undo, lines 417-437, past its guard
undo(ed) ==
    LET entry == ed.undoStack[Len(ed.undoStack)]
        popped == [ed EXCEPT !.undoStack = SubSeq(ed.undoStack, 1, Len(ed.undoStack) - 1),
                             !.redoStack = Append(ed.redoStack, entry)]
        cur == ed.currentPolygon
    IN  IF entry.type = "add_point"
        THEN IF ~cur.isNull /\ Len(cur.points) > 0
             THEN [popped EXCEPT !.currentPolygon =
                                    arrayOf(SubSeq(cur.points, 1, Len(cur.points) - 1))]
             ELSE popped
        ELSE IF entry.type = "close_polygon"
        THEN IF Len(ed.polygons) > 0
             THEN [popped EXCEPT !.currentPolygon =
                                    arrayOf(ed.polygons[Len(ed.polygons)]),
                                 !.polygons =
                                    SubSeq(ed.polygons, 1, Len(ed.polygons) - 1)]
             ELSE popped
        ELSE [popped EXCEPT !.polygons = spliceInsert(ed.polygons, entry.index,
                                                      entry.points),
                            !.selectedPolygonIndex = entry.index + 1]

\* redo, lines 439-458, past its guard
redo(ed) ==
    LET entry == ed.redoStack[Len(ed.redoStack)]
        popped == [ed EXCEPT !.redoStack = SubSeq(ed.redoStack, 1, Len(ed.redoStack) - 1),
                             !.undoStack = Append(ed.undoStack, entry)]
        cur == ed.currentPolygon
    IN  IF entry.type = "add_point"
        THEN [popped EXCEPT !.currentPolygon = arrayOf(Append(cur.points, entry.point))]
        ELSE IF entry.type = "close_polygon"
        THEN IF ~cur.isNull /\ Len(cur.points) >= 3
             THEN [popped EXCEPT !.polygons = Append(ed.polygons, cur.points),
                                 !.currentPolygon = nullPolygon]
             ELSE popped
        ELSE [popped EXCEPT !.polygons = spliceRemove(ed.polygons, entry.index),
                            !.selectedPolygonIndex = 0]

\* Undo button or Ctrl+Z: undo, line 418 and on.
Undo ==
    /\ Len(options.undoStack) > 0
    /\ ~options.coveringRunning
    /\ Len(undo(options).polygons) <= MaxShapes
    /\ options' = undo(options)
    /\ editorOnly

\* Redo button or Ctrl+Shift+Z: redo, line 440 and on.
Redo ==
    /\ Len(options.redoStack) > 0
    /\ ~options.coveringRunning
    /\ Len(redo(options).polygons) <= MaxShapes
    /\ Len(redo(options).currentPolygon.points) <= MaxVertices
    /\ options' = redo(options)
    /\ editorOnly

\* Delete or Backspace, lines 728-747: in draw mode with a vertex added
\* last it undoes the vertex, otherwise it deletes the selected polygon.
DeleteKey ==
    /\ ~options.coveringRunning
    /\ IF /\ options.drawMode
          /\ Len(options.currentPolygon.points) > 0
          /\ Len(options.undoStack) > 0
          /\ options.undoStack[Len(options.undoStack)].type = "add_point"
       THEN Undo
       ELSE deleteSelectedPolygon

NextEdit ==
    \/ ToggleDrawMode
    \/ addPoint
    \/ closePolygon
    \/ SelectPolygon
    \/ deleteSelectedPolygon
    \/ startEditPolygon
    \/ Undo
    \/ Redo
    \/ DeleteKey

EditSpec == InitEdit /\ [][NextEdit]_vars

(***************************************************************************)
(* Claims on undo and redo                                                 *)
(***************************************************************************)
\* C30: in every state reached by adding points, closing, selecting,
\* editing, deleting, undoing and redoing, with no covering running and an
\* undo stack that is not empty, an undo followed at once by a redo leaves
\* polygons and currentPolygon as they were before the undo (null and the
\* empty array of currentPolygon both counting as no vertex).
C30_UndoRedoRestores ==
    (Len(options.undoStack) > 0 /\ ~options.coveringRunning) =>
        /\ redo(undo(options)).polygons = options.polygons
        /\ redo(undo(options)).currentPolygon.points = options.currentPolygon.points

====
